---- MODULE Spec2Model ----
(***************************************************************************)
(* A model of the retrieval core of Electric_RAG: the power-flow traversal *)
(* of GraphService, the result aggregation and the relevance scoring of    *)
(* SearchService.search, and the map phase of MultiAgentSearchService.     *)
(* Each part has its own specification over the module's variables; the    *)
(* variables of the other parts stay at their initial values.              *)
(***************************************************************************)
EXTENDS Integers, Sequences, FiniteSets, TLC

VARIABLES
    \* ---- GraphService.get_full_power_flow -------------------------------
    graph,               \* the detailed_connections rows in the store
    equipment_tag,       \* argument of get_full_power_flow
    max_depth,           \* argument of get_full_power_flow
    flow_pc,             \* "idle" | "upstream" | "downstream" | "done"
    upstream_queue,      \* list of <<tag, depth, parent_tag>>
    upstream_visited,
    downstream_queue,
    downstream_visited,
    result,              \* the dict get_full_power_flow builds and returns
    prev_result,         \* the dicts that earlier calls on the same store returned
    \* ---- SearchService.search -------------------------------------------
    store,               \* the rows of the database a search reads
    request,             \* the query of the call, with what the analysis derives from it
    max_per_document,    \* argument of search
    limit,               \* argument of search
    equipment_tags,      \* tags of the query, then also the type results' tags
    search_pc,           \* the step search() is at
    type_results,        \* what _search_equipment_by_type returned
    all_results,
    existing_keys,
    document_counts,
    included_equipment_tags,
    admitted_by,         \* per admitted result: its key, and whether skip_doc_limit was set
    response,            \* the SearchResponse returned
    \* ---- MultiAgentSearchService.query ----------------------------------
    domains,             \* what _detect_domains finds in the query
    agent_run,           \* per agent: what its run() does in this call
    selected_agents,     \* what _select_agents returned
    future_done,         \* the agents whose future is done
    yielded,             \* the agents whose future as_completed has yielded
    results,             \* the dict _map_phase fills, in insertion order
    map_pc,              \* the step query() is at
    waited_for,          \* the agents the caller waited for after the timeout
    multi_response,      \* the MultiAgentResponse returned
    llm                  \* the text-generation collaborator: "none" | "ok" | "fails"

\* Python's None
None == "None"

flowVars == <<graph, equipment_tag, max_depth, flow_pc, upstream_queue,
              upstream_visited, downstream_queue, downstream_visited,
              result, prev_result>>

searchVars == <<store, request, max_per_document, limit, equipment_tags, search_pc,
                type_results, all_results, existing_keys, document_counts,
                included_equipment_tags, admitted_by, response>>

mapVars == <<domains, agent_run, selected_agents, future_done, yielded, results,
             map_pc, waited_for, multi_response, llm>>

VARIABLES
    \* ---- ask_question_smart / should_use_multi_agent ---------------------
    route_query,         \* the query of the request, as the analysis reads it
    prior_results,       \* the results of the initial search, passed as search_results
    route_pc,            \* "idle" | "decided" | "answered"
    use_multi_agent,     \* what should_use_multi_agent returned
    was_multi_agent      \* the field of the route's response

routeVars == <<route_query, prior_results, route_pc, use_multi_agent, was_multi_agent>>

VARIABLES
    \* ---- SearchService.expand_equipment_tags_with_aliases ----------------
    alias_table,         \* the equipment_aliases rows in the store
    input_tags,          \* argument `tags`
    alias_project_id,    \* argument `project_id`; 0 stands for None
    alias_pc,            \* "idle" | "done"
    expanded_result      \* the list returned

aliasVars == <<alias_table, input_tags, alias_project_id, alias_pc, expanded_result>>

VARIABLES
    \* ---- AliasService.fuzzy_match / find_equipment_by_tag ----------------
    fuzzy_tag,           \* argument `tag`
    equipment_list,      \* the Equipment rows, in the order the query returns them
    fuzzy_pc,            \* "idle" | "matched" | "found"
    fuzzy_result         \* the tuple returned: equipment (id) or None, confidence

fuzzyVars == <<fuzzy_tag, equipment_list, fuzzy_pc, fuzzy_result>>

VARIABLES
    \* ---- MultiAgentSearchService._aggregate_sources ----------------------
    agg_results,         \* argument `agent_results`, in insertion order
    agg_pc,              \* "idle" | "aggregated"
    agg_sources          \* the list returned

aggVars == <<agg_results, agg_pc, agg_sources>>

VARIABLES
    \* ---- SearchService.rewrite_query and step 0 of search ----------------
    rw_query,            \* argument `query`, a list of characters
    rw_flag,             \* argument `rewrite_query` of search
    rw_llm,              \* the rewrite collaborator: not configured, raising, or its answer
    rw_pc,               \* "idle" | "rewritten" | "searched"
    rw_returned,         \* what rewrite_query returned
    rw_search            \* what search() derived: the queries its steps used

rewriteVars == <<rw_query, rw_flag, rw_llm, rw_pc, rw_returned, rw_search>>

VARIABLES
    \* ---- GraphService.get_equipment_connections --------------------------
    conn_pc,             \* "idle" | "returned" | "raised"
    conn_result          \* the dict get_equipment_connections returned

connectionsVars == <<conn_pc, conn_result>>

VARIABLES
    \* ---- GeminiVisionClient.analyze_crop ---------------------------------
    vis_api_key,         \* whether GEMINI_API_KEY was set when the client was built
    vis_response,        \* what generate_content does: raises, or answers a text
    vis_pc,              \* "idle" | "returned"
    vis_model_calls,     \* calls of generate_content made
    vis_result           \* the dict returned, as the set of its members

visionVars == <<vis_api_key, vis_response, vis_pc, vis_model_calls, vis_result>>

VARIABLES
    \* ---- SearchAgent._calculate_confidence --------------------------------
    conf_results,        \* argument `results`
    conf_pc,             \* "idle" | "done"
    conf_value           \* the confidence returned, in thousandths

confVars == <<conf_results, conf_pc, conf_value>>

vars == <<flowVars, searchVars, mapVars, routeVars, aliasVars, fuzzyVars, aggVars, rewriteVars, connectionsVars, visionVars, confVars>>

\* What the steps of one part leave alone.
notFlowVars == <<searchVars, mapVars, routeVars, aliasVars, fuzzyVars, aggVars, rewriteVars, connectionsVars, visionVars, confVars>>
notSearchVars == <<flowVars, mapVars, routeVars, aliasVars, fuzzyVars, aggVars, rewriteVars, connectionsVars, visionVars, confVars>>
notMapVars == <<flowVars, searchVars, routeVars, aliasVars, fuzzyVars, aggVars, rewriteVars, connectionsVars, visionVars, confVars>>
notRouteVars == <<flowVars, searchVars, mapVars, aliasVars, fuzzyVars, aggVars, rewriteVars, connectionsVars, visionVars, confVars>>
notAliasVars == <<flowVars, searchVars, mapVars, routeVars, fuzzyVars, aggVars, rewriteVars, connectionsVars, visionVars, confVars>>
notFuzzyVars == <<flowVars, searchVars, mapVars, routeVars, aliasVars, aggVars, rewriteVars, connectionsVars, visionVars, confVars>>
notAggVars == <<flowVars, searchVars, mapVars, routeVars, aliasVars, fuzzyVars, rewriteVars, connectionsVars, visionVars, confVars>>
notRewriteVars == <<flowVars, searchVars, mapVars, routeVars, aliasVars, fuzzyVars, aggVars, connectionsVars, visionVars, confVars>>
notConnectionsVars == <<flowVars, searchVars, mapVars, routeVars, aliasVars, fuzzyVars, aggVars, rewriteVars, visionVars, confVars>>
notVisionVars == <<flowVars, searchVars, mapVars, routeVars, aliasVars, fuzzyVars, aggVars, rewriteVars, connectionsVars, confVars>>
notConfVars == <<flowVars, searchVars, mapVars, routeVars, aliasVars, fuzzyVars, aggVars, rewriteVars, connectionsVars, visionVars>>

\* The response variable before search() has returned.
NoResponse == [query_type |-> None, results |-> <<>>, total_count |-> 0]

\* The state of a part of the system no call has touched.
SearchIdle ==
    /\ store = {}
    /\ request = None
    /\ max_per_document = 0
    /\ limit = 0
    /\ equipment_tags = <<>>
    /\ search_pc = "idle"
    /\ type_results = <<>>
    /\ all_results = <<>>
    /\ existing_keys = {}
    /\ document_counts = <<>>
    /\ included_equipment_tags = {}
    /\ admitted_by = <<>>
    /\ response = NoResponse

MapIdle ==
    /\ domains = {}
    /\ agent_run = <<>>
    /\ selected_agents = {}
    /\ future_done = {}
    /\ yielded = {}
    /\ results = <<>>
    /\ map_pc = "idle"
    /\ waited_for = {}
    /\ multi_response = <<>>
    /\ llm = "none"

FlowIdle ==
    /\ graph = {}
    /\ equipment_tag = None
    /\ max_depth = 0
    /\ flow_pc = "idle"
    /\ upstream_queue = <<>>
    /\ upstream_visited = {}
    /\ downstream_queue = <<>>
    /\ downstream_visited = {}
    /\ result = None
    /\ prev_result = <<>>

RouteIdle ==
    /\ route_query = None
    /\ prior_results = <<>>
    /\ route_pc = "idle"
    /\ use_multi_agent = FALSE
    /\ was_multi_agent = FALSE

AliasIdle ==
    /\ alias_table = {}
    /\ input_tags = <<>>
    /\ alias_project_id = 0
    /\ alias_pc = "idle"
    /\ expanded_result = <<>>

FuzzyIdle ==
    /\ fuzzy_tag = None
    /\ equipment_list = <<>>
    /\ fuzzy_pc = "idle"
    /\ fuzzy_result = [equipment |-> <<>>, confidence |-> 0]

AggIdle ==
    /\ agg_results = <<>>
    /\ agg_pc = "idle"
    /\ agg_sources = <<>>

RewriteIdle ==
    /\ rw_query = <<>>
    /\ rw_flag = FALSE
    /\ rw_llm = [state |-> "none", text |-> <<>>]
    /\ rw_pc = "idle"
    /\ rw_returned = <<>>
    /\ rw_search = <<>>

ConnectionsIdle ==
    /\ conn_pc = "idle"
    /\ conn_result = <<>>

VisionIdle ==
    /\ vis_api_key = FALSE
    /\ vis_response = [state |-> "raises", text |-> <<>>]
    /\ vis_pc = "idle"
    /\ vis_model_calls = 0
    /\ vis_result = {}

ConfIdle ==
    /\ conf_results = <<>>
    /\ conf_pc = "idle"
    /\ conf_value = 0

\* Every part but one in the state no call has touched.
NotFlowIdle == SearchIdle /\ MapIdle /\ RouteIdle /\ AliasIdle /\ FuzzyIdle /\ AggIdle /\ RewriteIdle /\ ConnectionsIdle /\ VisionIdle /\ ConfIdle
NotSearchIdle == FlowIdle /\ MapIdle /\ RouteIdle /\ AliasIdle /\ FuzzyIdle /\ AggIdle /\ RewriteIdle /\ ConnectionsIdle /\ VisionIdle /\ ConfIdle
NotMapIdle == FlowIdle /\ SearchIdle /\ RouteIdle /\ AliasIdle /\ FuzzyIdle /\ AggIdle /\ RewriteIdle /\ ConnectionsIdle /\ VisionIdle /\ ConfIdle
NotRouteIdle == FlowIdle /\ SearchIdle /\ MapIdle /\ AliasIdle /\ FuzzyIdle /\ AggIdle /\ RewriteIdle /\ ConnectionsIdle /\ VisionIdle /\ ConfIdle
NotAliasIdle == FlowIdle /\ SearchIdle /\ MapIdle /\ RouteIdle /\ FuzzyIdle /\ AggIdle /\ RewriteIdle /\ ConnectionsIdle /\ VisionIdle /\ ConfIdle
NotFuzzyIdle == FlowIdle /\ SearchIdle /\ MapIdle /\ RouteIdle /\ AliasIdle /\ AggIdle /\ RewriteIdle /\ ConnectionsIdle /\ VisionIdle /\ ConfIdle
NotAggIdle == FlowIdle /\ SearchIdle /\ MapIdle /\ RouteIdle /\ AliasIdle /\ FuzzyIdle /\ RewriteIdle /\ ConnectionsIdle /\ VisionIdle /\ ConfIdle
NotRewriteIdle == FlowIdle /\ SearchIdle /\ MapIdle /\ RouteIdle /\ AliasIdle /\ FuzzyIdle /\ AggIdle /\ ConnectionsIdle /\ VisionIdle /\ ConfIdle
NotConnectionsIdle == FlowIdle /\ SearchIdle /\ MapIdle /\ RouteIdle /\ AliasIdle /\ FuzzyIdle /\ AggIdle /\ RewriteIdle /\ VisionIdle /\ ConfIdle
NotVisionIdle == FlowIdle /\ SearchIdle /\ MapIdle /\ RouteIdle /\ AliasIdle /\ FuzzyIdle /\ AggIdle /\ RewriteIdle /\ ConnectionsIdle /\ ConfIdle
NotConfIdle == FlowIdle /\ SearchIdle /\ MapIdle /\ RouteIdle /\ AliasIdle /\ FuzzyIdle /\ AggIdle /\ RewriteIdle /\ ConnectionsIdle /\ VisionIdle

\* ------------------------------------------------------------------------
\* Generic helpers
\* ------------------------------------------------------------------------
Range(s) == {s[i] : i \in DOMAIN s}

\* All the orders in which a store may hand back the rows of a set.
Orderings(S) ==
    {s \in [1..Cardinality(S) -> S] : \A i, j \in 1..Cardinality(S) : s[i] = s[j] => i = j}

\* The number of occurrences of x in the list s.
Count(s, x) == Cardinality({i \in DOMAIN s : s[i] = x})

\* Two lists hold the same elements with the same multiplicities.
SameMultiset(s, t) ==
    /\ Len(s) = Len(t)
    /\ \A x \in Range(s) \cup Range(t) : Count(s, x) = Count(t, x)

\* ------------------------------------------------------------------------
\* GraphService.get_full_power_flow
\* ------------------------------------------------------------------------

\* Bounds of the power-flow model.
MaxEdges == 3
MaxDepthArg == 2

\* Tags as they may be spelled in the store or in a request.
UpperTags == {"VFD-101", "MCC-1", "MDP-1"}
AllTags == UpperTags \cup {"vfd-101", "mcc-1"}
QueryTags == {"VFD-101", "mcc-1"}

\* str.upper() / func.upper() on the tags of the model.
Upper(t) ==
    CASE t = "vfd-101" -> "VFD-101"
      [] t = "mcc-1" -> "MCC-1"
      [] t = "p-101" -> "P-101"
      [] t = "pmp-1" -> "PMP-1"
      [] t = "Pump-A" -> "PUMP-A"
      [] OTHER -> t

\* The JSON columns of the detailed_connections rows, as stored: NULL, an
\* empty text, a JSON array, or a text that is not JSON.
StoredWireNumbers(id) ==
    CASE id = 2 -> "[\"W1\", \"W2\"]"
      [] id = 3 -> ""
      [] id = 10 -> "[W1"
      [] OTHER -> None

StoredInlineDevices(id) ==
    CASE id = 6 -> "[]"
      [] id = 11 -> "{"
      [] OTHER -> None

\* A detailed_connections row.
Conn(id, s, t, cat, typ, brk, volt) ==
    [id |-> id, document_id |-> 1, page_number |-> id,
     source_tag |-> s, target_tag |-> t, category |-> cat, connection_type |-> typ,
     voltage |-> volt, breaker |-> brk, wire_size |-> None, load |-> None,
     wire_numbers |-> StoredWireNumbers(id), inline_devices |-> StoredInlineDevices(id)]

\* The rows a store may hold in this model: feed edges between the three
\* devices (with cycles, a self-feeding edge, a second spelling of a tag and
\* parallel paths) and two rows that are not ELECTRICAL/FEEDS.
ConnectionRows ==
    { Conn(1, "MDP-1", "MCC-1", "ELECTRICAL", "FEEDS", "MAIN", "480V"),
      Conn(2, "MCC-1", "VFD-101", "ELECTRICAL", "FEEDS", "BKR-15", "480V"),
      Conn(3, "MDP-1", "VFD-101", "ELECTRICAL", "FEEDS", "BKR-3", "480V"),
      Conn(4, "VFD-101", "MCC-1", "ELECTRICAL", "FEEDS", None, None),
      Conn(5, "VFD-101", "VFD-101", "ELECTRICAL", "FEEDS", None, None),
      Conn(6, "mcc-1", "VFD-101", "ELECTRICAL", "FEEDS", "BKR-16", "480V"),
      Conn(7, "MCC-1", "MDP-1", "ELECTRICAL", "FEEDS", None, None),
      Conn(8, "VFD-101", "MDP-1", "ELECTRICAL", "FEEDS", None, None),
      Conn(9, "MDP-1", "mcc-1", "ELECTRICAL", "FEEDS", None, "480V"),
      Conn(10, "MCC-1", "VFD-101", "CONTROL", "CONTROLS", None, None),
      Conn(11, "MDP-1", "MCC-1", "ELECTRICAL", "PROTECTS", None, None) }

EmptyResult(tag) ==
    [equipment_tag |-> tag, upstream_tree |-> <<>>, downstream_tree |-> <<>>,
     total_upstream |-> 0, total_downstream |-> 0]

\* Query.all(): every matching row, in the order the store hands them back.
FetchFirst(rows) == IF rows = <<>> THEN <<>> ELSE <<rows[1]>>
FetchAll(rows) == rows

\* The rows that feed `current` (the filter of the upstream query).
UpstreamFeeds(current) ==
    {c \in graph : /\ Upper(c.target_tag) = current
                   /\ c.category = "ELECTRICAL"
                   /\ c.connection_type = "FEEDS"}

\* The rows that `current` feeds (the filter of the downstream query).
DownstreamFeeds(current) ==
    {c \in graph : /\ Upper(c.source_tag) = current
                   /\ c.category = "ELECTRICAL"
                   /\ c.connection_type = "FEEDS"}

SkipEntryDepthOnly(current, depth, visited) == depth > max_depth
\* The `continue` test at the head of both traversal loops.
SkipEntry(current, depth, visited) == current \in visited \/ depth > max_depth

UpstreamNodeParent(feed, current, depth, parent) ==
    [tag |-> feed.source_tag, feeds |-> parent, depth |-> depth + 1,
     breaker |-> feed.breaker, voltage |-> feed.voltage, wire_size |-> feed.wire_size,
     load |-> feed.load, document_id |-> feed.document_id, page_number |-> feed.page_number]
UpstreamNode(feed, current, depth, parent) ==
    [tag |-> feed.source_tag, feeds |-> current, depth |-> depth + 1,
     breaker |-> feed.breaker, voltage |-> feed.voltage, wire_size |-> feed.wire_size,
     load |-> feed.load, document_id |-> feed.document_id, page_number |-> feed.page_number]

DownstreamNode(feed, current, depth, parent) ==
    [tag |-> feed.target_tag, fed_by |-> current, depth |-> depth + 1,
     breaker |-> feed.breaker, voltage |-> feed.voltage, wire_size |-> feed.wire_size,
     load |-> feed.load, document_id |-> feed.document_id, page_number |-> feed.page_number]

\* A store where UTIL-1 feeds MDP-1, and MDP-1 feeds VFD-101 both directly
\* and through MCC-1.
SharedTailRows ==
    {c \in ConnectionRows : c.id \in {1, 2, 3}}
    \cup {Conn(12, "UTIL-1", "MDP-1", "ELECTRICAL", "FEEDS", "UTIL", "13kV")}

\* A store with a safety interlock between VFD-101 and MCC-1, as the
\* analysis of a control drawing stores it.
InterlockRows ==
    {c \in ConnectionRows : c.id = 2}
    \cup {Conn(13, "VFD-101", "MCC-1", "INTERLOCK", "SAFETY", None, None)}

FlowInit ==
    /\ \/ /\ graph \in {g \in SUBSET ConnectionRows : Cardinality(g) <= MaxEdges}
          /\ equipment_tag \in QueryTags
          /\ max_depth \in 0..MaxDepthArg
       \/ /\ graph \in {SharedTailRows, InterlockRows}
          /\ equipment_tag = "VFD-101"
          /\ max_depth = MaxDepthArg + 1
    /\ flow_pc = "idle"
    /\ upstream_queue = <<>>
    /\ upstream_visited = {}
    /\ downstream_queue = <<>>
    /\ downstream_visited = {}
    /\ result = EmptyResult(None)
    /\ prev_result = <<>>
    /\ NotFlowIdle

\* Entry of get_full_power_flow (a first call, and a second one on the
\* unchanged store with the same arguments).
GetFullPowerFlow ==
    /\ flow_pc = "idle" \/ (flow_pc = "done" /\ prev_result = <<>>)
    /\ prev_result' = IF flow_pc = "done" THEN <<result>> ELSE <<>>
    /\ result' = EmptyResult(equipment_tag)
    /\ upstream_queue' = << <<Upper(equipment_tag), 0, None>> >>
    /\ upstream_visited' = {}
    /\ downstream_queue' = <<>>
    /\ downstream_visited' = {}
    /\ flow_pc' = "upstream"
    /\ UNCHANGED <<graph, equipment_tag, max_depth>>
    /\ UNCHANGED notFlowVars

\* One iteration of the upstream while loop.
UpstreamStep ==
    /\ flow_pc = "upstream"
    /\ upstream_queue # <<>>
    /\ LET current == Head(upstream_queue)[1]
           depth == Head(upstream_queue)[2]
           parent == Head(upstream_queue)[3]
       IN IF SkipEntry(current, depth, upstream_visited)
          THEN /\ upstream_queue' = Tail(upstream_queue)
               /\ UNCHANGED <<upstream_visited, result>>
          ELSE \E order \in Orderings(UpstreamFeeds(current)) :
                 LET feeds == FetchAll(order)
                 IN /\ upstream_visited' = upstream_visited \cup {current}
                    /\ result' = [result EXCEPT !.upstream_tree = @ \o
                          [i \in 1..Len(feeds) |-> UpstreamNode(feeds[i], current, depth, parent)]]
                    /\ upstream_queue' = Tail(upstream_queue) \o
                          [i \in 1..Len(feeds) |-> <<Upper(feeds[i].source_tag), depth + 1, current>>]
    /\ UNCHANGED <<graph, equipment_tag, max_depth, flow_pc, downstream_queue,
                   downstream_visited, prev_result>>
    /\ UNCHANGED notFlowVars

\* The upstream loop ends; the downstream queue and visited set are created.
UpstreamEnd ==
    /\ flow_pc = "upstream"
    /\ upstream_queue = <<>>
    /\ downstream_queue' = << <<Upper(equipment_tag), 0, None>> >>
    /\ downstream_visited' = {}
    /\ flow_pc' = "downstream"
    /\ UNCHANGED <<graph, equipment_tag, max_depth, upstream_queue, upstream_visited,
                   result, prev_result>>
    /\ UNCHANGED notFlowVars

\* One iteration of the downstream while loop.
DownstreamStep ==
    /\ flow_pc = "downstream"
    /\ downstream_queue # <<>>
    /\ LET current == Head(downstream_queue)[1]
           depth == Head(downstream_queue)[2]
           parent == Head(downstream_queue)[3]
       IN IF SkipEntry(current, depth, downstream_visited)
          THEN /\ downstream_queue' = Tail(downstream_queue)
               /\ UNCHANGED <<downstream_visited, result>>
          ELSE \E order \in Orderings(DownstreamFeeds(current)) :
                 LET fed_equipment == FetchAll(order)
                 IN /\ downstream_visited' = downstream_visited \cup {current}
                    /\ result' = [result EXCEPT !.downstream_tree = @ \o
                          [i \in 1..Len(fed_equipment) |->
                               DownstreamNode(fed_equipment[i], current, depth, parent)]]
                    /\ downstream_queue' = Tail(downstream_queue) \o
                          [i \in 1..Len(fed_equipment) |->
                               <<Upper(fed_equipment[i].target_tag), depth + 1, current>>]
    /\ UNCHANGED <<graph, equipment_tag, max_depth, flow_pc, upstream_queue,
                   upstream_visited, prev_result>>
    /\ UNCHANGED notFlowVars

\* The downstream loop ends; the totals are set and the dict is returned.
DownstreamEnd ==
    /\ flow_pc = "downstream"
    /\ downstream_queue = <<>>
    /\ result' = [result EXCEPT !.total_upstream = Len(result.upstream_tree),
                                !.total_downstream = Len(result.downstream_tree)]
    /\ flow_pc' = "done"
    /\ UNCHANGED <<graph, equipment_tag, max_depth, upstream_queue, upstream_visited,
                   downstream_queue, downstream_visited, prev_result>>
    /\ UNCHANGED notFlowVars

FlowNext ==
    \/ GetFullPowerFlow
    \/ UpstreamStep
    \/ UpstreamEnd
    \/ DownstreamStep
    \/ DownstreamEnd

FlowSpec == FlowInit /\ [][FlowNext]_vars

\* ------------------------------------------------------------------------
\* Claims about get_full_power_flow (checked under FlowSpec)
\* ------------------------------------------------------------------------

\* The nodes reported so far, both directions.
UpstreamNodes == Range(result.upstream_tree)
DownstreamNodes == Range(result.downstream_tree)

\* C5: every node of upstream_tree and downstream_tree has depth <= max_depth
\* (no equipment more than max_depth feed hops away is reported).
C5_DepthWithinMaxDepth ==
    \A n \in UpstreamNodes \cup DownstreamNodes : n.depth <= max_depth

\* C6: every returned node has depth >= 1 and a tag that differs, compared
\* case-insensitively, from the queried tag, on every graph (cycles and
\* self-feeding edges included).
C6_NeverReportsRoot ==
    \A n \in UpstreamNodes \cup DownstreamNodes :
        n.depth >= 1 /\ Upper(n.tag) # Upper(equipment_tag)

\* C7: a second call on the unchanged store returns, in each direction, the
\* same multiset of nodes as the first, whatever order the store hands the
\* rows back in on either call.
C7_RepeatCallSameMultiset ==
    (flow_pc = "done" /\ prev_result # <<>>) =>
        /\ SameMultiset(prev_result[1].upstream_tree, result.upstream_tree)
        /\ SameMultiset(prev_result[1].downstream_tree, result.downstream_tree)

\* C7's case: both calls are done, a device has two feeders, and the two
\* calls listed the nodes in different orders.
C7_Witness ==
    /\ flow_pc = "done"
    /\ prev_result # <<>>
    /\ Len(result.upstream_tree) >= 3
    /\ prev_result[1].upstream_tree # result.upstream_tree

\* The ELECTRICAL/FEEDS rows of the store.
FeedRows == {c \in graph : c.category = "ELECTRICAL" /\ c.connection_type = "FEEDS"}

\* `chain` lists all the feed rows of the store, and they form a chain
\* X_k feeds ... feeds X_1 feeds the queried tag, over distinct devices.
IsChainToQueried(chain) ==
    /\ Len(chain) >= 1
    /\ Upper(chain[1].target_tag) = Upper(equipment_tag)
    /\ \A i \in 2..Len(chain) : Upper(chain[i].target_tag) = Upper(chain[i - 1].source_tag)
    /\ Cardinality({Upper(equipment_tag)} \cup {Upper(chain[i].source_tag) : i \in DOMAIN chain})
          = Len(chain) + 1

\* C8: when the feed rows form a chain X_k .. X_1 to the queried tag and
\* max_depth >= k, upstream_tree holds exactly one node per X_i, at depth i,
\* whose feeds is the (upper-cased) tag X_i directly feeds and whose breaker
\* and voltage are those of that row, and downstream_tree is empty.
C8_ChainScenario ==
    flow_pc = "done" =>
        \A chain \in Orderings(FeedRows) :
            (IsChainToQueried(chain) /\ max_depth >= Len(chain)) =>
                /\ Len(result.upstream_tree) = Len(chain)
                /\ \A i \in DOMAIN chain :
                      LET n == result.upstream_tree[i]
                      IN /\ n.tag = chain[i].source_tag
                         /\ n.depth = i
                         /\ n.feeds = Upper(chain[i].target_tag)
                         /\ n.breaker = chain[i].breaker
                         /\ n.voltage = chain[i].voltage
                /\ result.downstream_tree = <<>>
                /\ result.total_upstream = Len(chain)
                /\ result.total_downstream = 0

\* C8's case: the spec's scenario, MDP-1 feeds MCC-1 feeds VFD-101, queried
\* at VFD-101, answered with MCC-1 at depth 1 and MDP-1 at depth 2.
C8_Witness ==
    /\ flow_pc = "done"
    /\ equipment_tag = "VFD-101"
    /\ FeedRows = {c \in ConnectionRows : c.id \in {1, 2}}
    /\ Len(result.upstream_tree) = 2
    /\ result.upstream_tree[1].tag = "MCC-1"
    /\ result.upstream_tree[1].feeds = "VFD-101"
    /\ result.upstream_tree[1].breaker = "BKR-15"
    /\ result.upstream_tree[2].tag = "MDP-1"
    /\ result.upstream_tree[2].feeds = "MCC-1"
    /\ result.upstream_tree[2].depth = 2

\* ------------------------------------------------------------------------
\* SearchService.search: the store and the requests
\* ------------------------------------------------------------------------

\* Bounds of the search model.
MaxStored == 3
MaxPerDocumentArg == 2
MaxLimitArg == 2

\* Scores are fixed-point numbers: Score(n) is n/100, in units of 10^-7, so
\* that five successive factors with one decimal keep them exact.
Score(n) == n * 100000

Min(a, b) == IF a <= b THEN a ELSE b

\* Query.limit(n) on a list of rows.
Take(s, n) == SubSeq(s, 1, Min(n, Len(s)))

\* A text as the scoring reads it: its length, the lower-cased words that
\* occur in it, and the data type it names.
Text(len, words, dtype) == [length |-> len, words |-> words, data_type |-> dtype]

\* A text column that is NULL, a snippet that is None. (A record, so that
\* the rows stay comparable with each other.)
NoText == [length |-> 0 - 1, words |-> {}, data_type |-> None]

\* An optional number: <<>> for None, <<n>> for n.
NoNumber == <<>>
Some(n) == <<n>>

\* str.lower() on the tags of the model.
Lower(t) ==
    CASE t = "P-101" -> "p-101"
      [] t = "P-102" -> "p-102"
      [] OTHER -> t

\* The Equipment table: two pumps.
EquipmentTable ==
    { [tag |-> "P-101", equipment_type |-> "PUMP"],
      [tag |-> "P-102", equipment_type |-> "PUMP"] }

\* EquipmentLocation rows, joined with their page and document.
LocationRow(id, tag, doc, page, context) ==
    [kind |-> "location", id |-> id, equipment |-> tag, document_id |-> doc,
     page_number |-> page, context_text |-> context]

\* Page rows with an embedding: the similarity to the query, the tags the
\* page's text mentions, whether the text contains the whole query, and the
\* OCR text.
PageRow(id, doc, page, sim, mentions, has_query, ocr) ==
    [kind |-> "page", id |-> id, document_id |-> doc, page_number |-> page,
     similarity |-> sim, mentions |-> mentions, has_query |-> has_query, ocr_text |-> ocr]

\* SupplementaryChunk rows, joined with their supplementary document.
\* equipment_tags is the list its JSON column parses to, <<>> when the
\* column is NULL or holds an empty list.
ChunkRow(id, doc, idx, loc, sim, tags, content) ==
    [kind |-> "chunk", id |-> id, document_id |-> doc, chunk_index |-> idx,
     source_location |-> loc, similarity |-> sim, equipment_tags |-> tags,
     content |-> content]

\* EquipmentData rows, joined with their supplementary document.
DataRow(id, tag, doc, loc, dtype, conf, len) ==
    [kind |-> "data", id |-> id, equipment_tag |-> tag, document_id |-> doc,
     source_location |-> loc, data_type |-> dtype, match_confidence |-> conf,
     json_length |-> len]

\* The rows a store may hold in this model. Documents and supplementary
\* documents are numbered independently, each table from 1.
StoreRows ==
    { LocationRow(1, "P-101", 1, 1, Text(120, {"pumps", "p-101"}, None)),
      LocationRow(2, "P-102", 1, 1, NoText),
      LocationRow(3, "P-101", 1, 2, Text(260, {"p-101"}, None)),
      LocationRow(4, "P-102", 2, 1, Text(30, {"p-102"}, None)),
      PageRow(5, 1, 1, Score(80), {"P-101", "P-102"}, FALSE, Text(400, {"p-101", "p-102", "pumps", "chilled"}, None)),
      PageRow(6, 1, 2, 0 - Score(20), {}, TRUE, Text(40, {"water"}, None)),
      PageRow(7, 2, 1, Score(35), {"P-102"}, FALSE, NoText),
      PageRow(8, 2, 2, Score(80), {"P-101"}, TRUE, Text(150, {"list", "all", "pumps", "wired", "like", "p-102", "p-101"}, None)),
      ChunkRow(9, 1, 0, "Sheet1:A1", Score(60), <<"P-101">>, Text(350, {"p-101", "overview"}, None)),
      ChunkRow(10, 1, 1, "", 0 - Score(10), <<>>, Text(80, {}, None)),
      ChunkRow(11, 2, 0, "Sheet1:A1", Score(60), <<>>, Text(20, {"pumps"}, None)),
      DataRow(12, "P-101", 1, "Sheet1:A1", "SPECIFICATION", NoNumber, 60),
      DataRow(13, "P-102", 2, None, "IO_POINT", Some(Score(50)), 20),
      DataRow(14, "P-101", 1, "Sheet1:B7", "ALARM", Some(Score(100)), 250) }

\* The requests of the model, with what classify_query,
\* _detect_equipment_type_query and the tag extraction derive from each.
Requests ==
    { [query |-> <<"list", "all", "pumps">>,
       detected_equipment_type |-> "PUMP", tags |-> <<>>, query_type |-> "GENERAL"],
      [query |-> <<"where", "is", "p-101">>,
       detected_equipment_type |-> None, tags |-> <<"P-101">>,
       query_type |-> "EQUIPMENT_LOOKUP"],
      [query |-> <<"list", "all", "pumps", "wired", "like", "p-102">>,
       detected_equipment_type |-> "PUMP", tags |-> <<"P-102">>,
       query_type |-> "WIRE_TRACE"],
      [query |-> <<"chilled", "water", "overview">>,
       detected_equipment_type |-> None, tags |-> <<>>, query_type |-> "GENERAL"] }

\* ------------------------------------------------------------------------
\* SearchService.search: the sources
\* ------------------------------------------------------------------------

\* A SearchResult. document is the id of its DocumentResponse;
\* document_table records which table that id was read from.
SearchResult(tag, doc, table, page, score, snippet, mtype, loc) ==
    [equipment |-> tag, document |-> doc, document_table |-> table,
     page_number |-> page, relevance_score |-> score, snippet |-> snippet,
     match_type |-> mtype, source_location |-> loc]

\* The lists obtained by taking one list from each set of `choices`, in
\* order, and concatenating them (a loop that extends `results` per tag).
RECURSIVE ConcatAll(_)
ConcatAll(choices) ==
    IF choices = <<>> THEN {<<>>}
    ELSE {a \o b : a \in Head(choices), b \in ConcatAll(Tail(choices))}

\* The orders a query with ORDER BY distance may return the rows of S in.
BySimilarity(S) ==
    {o \in Orderings(S) : \A i \in 1..(Len(o) - 1) : o[i].similarity >= o[i + 1].similarity}

\* The row limits of the queries.
TypeEquipmentLimit == 50
TypeLocationLimit == 3
SourceLimit == 20
SupplementaryLimit == 15

\* text[:n] + "..." when the text is longer than n.
Truncated(text, n) ==
    IF text = NoText THEN NoText
    ELSE IF text.length > n THEN [text EXCEPT !.length = n + 3] ELSE text

\* f"Equipment {tag} found on this page" / "... mentioned on this page".
FoundOnPage(tag) == Text(36, {"equipment", Lower(tag), "found", "on", "this", "page"}, None)
MentionedOnPage(tag) ==
    Text(40, {"equipment", Lower(tag), "mentioned", "on", "this", "page"}, None)

\* The snippet built from an EquipmentData row: it starts with the data type.
DataSnippet(d) == Text(d.json_length, {}, d.data_type)

LocationsOf(tag) == {r \in store : r.kind = "location" /\ r.equipment = tag}
DataOf(tag) == {r \in store : r.kind = "data" /\ r.equipment_tag = tag}
Pages == {r \in store : r.kind = "page"}
Chunks == {r \in store : r.kind = "chunk"}

\* _search_equipment_by_type: per equipment of the type, up to three of its
\* locations, or else one EquipmentData row as a placeholder. (No tag of
\* the model contains a type name, so the ilike filters select nothing more.)
TypeLocationResult(l) ==
    SearchResult(l.equipment, l.document_id, "documents", l.page_number, Score(100),
                 IF l.context_text # NoText /\ l.context_text.length > 0
                 THEN l.context_text ELSE FoundOnPage(l.equipment),
                 "equipment_type_search", None)

TypePlaceholderResult(e, d) ==
    SearchResult(e.tag, d.document_id, "supplementary_documents", 1, Score(95),
                 DataSnippet(d), "equipment_type_search", d.source_location)

TypeResultsOf(e) ==
    IF LocationsOf(e.tag) # {}
    THEN {[i \in DOMAIN Take(o, TypeLocationLimit) |-> TypeLocationResult(o[i])] :
              o \in Orderings(LocationsOf(e.tag))}
    ELSE IF DataOf(e.tag) = {} THEN {<<>>}
    ELSE {<<TypePlaceholderResult(e, d)>> : d \in DataOf(e.tag)}

SearchEquipmentByType(equipment_type) ==
    UNION { ConcatAll([i \in DOMAIN Take(eo, TypeEquipmentLimit) |-> TypeResultsOf(eo[i])]) :
              eo \in Orderings({e \in EquipmentTable : e.equipment_type = equipment_type}) }

\* _exact_equipment_search: the locations of the equipment each tag names.
ExactResult(l) ==
    SearchResult(l.equipment, l.document_id, "documents", l.page_number, Score(100),
                 l.context_text, "exact", None)

ExactResultsOf(tag) ==
    UNION { {[i \in DOMAIN Take(o, SourceLimit) |-> ExactResult(o[i])] :
                o \in Orderings(LocationsOf(e.tag))} :
            e \in {x \in EquipmentTable : Upper(x.tag) = Upper(tag)} }

ExactEquipmentSearch(tags) ==
    ConcatAll([i \in DOMAIN tags |->
                 IF ExactResultsOf(tags[i]) = {} THEN {<<>>} ELSE ExactResultsOf(tags[i])])

\* _text_search_for_equipment: the pages whose text mentions each tag, with
\* the context around the mention (_extract_context) as the snippet.
ContextChars == 150

ExtractContext(text, tag) ==
    IF text = NoText \/ Lower(tag) \notin text.words THEN NoText
    ELSE [text EXCEPT !.length = Min(text.length, 2 * ContextChars + 11)]

TextResult(pg, tag) ==
    SearchResult(tag, pg.document_id, "documents", pg.page_number, Score(90),
                 IF ExtractContext(pg.ocr_text, tag) # NoText
                 THEN ExtractContext(pg.ocr_text, tag) ELSE MentionedOnPage(tag),
                 "text_search", None)

TextResultsOf(tag) ==
    {[i \in DOMAIN Take(o, SourceLimit) |-> TextResult(o[i], tag)] :
        o \in Orderings({pg \in Pages : tag \in pg.mentions})}

TextSearchForEquipment(tags) == ConcatAll([i \in DOMAIN tags |-> TextResultsOf(tags[i])])

\* _semantic_search: the pages nearest to the query's embedding; the score
\* is the cosine similarity.
SemanticResult(pg) ==
    SearchResult(None, pg.document_id, "documents", pg.page_number, pg.similarity,
                 Truncated(pg.ocr_text, 200), "semantic", None)

SemanticSearch ==
    {[i \in DOMAIN Take(o, SourceLimit) |-> SemanticResult(o[i])] : o \in BySimilarity(Pages)}

\* _keyword_search: the pages whose text contains the query.
KeywordResult(pg) ==
    SearchResult(None, pg.document_id, "documents", pg.page_number, Score(50),
                 Truncated(pg.ocr_text, 200), "keyword", None)

KeywordSearch ==
    {[i \in DOMAIN Take(o, SourceLimit) |-> KeywordResult(o[i])] :
        o \in Orderings({pg \in Pages : pg.has_query})}

\* _search_supplementary_chunks: the chunks nearest to the query's embedding.
ChunkResult(c) ==
    SearchResult(IF c.equipment_tags # <<>>
                 THEN c.equipment_tags[1] ELSE None,
                 c.document_id, "supplementary_documents", c.chunk_index + 1, c.similarity,
                 Truncated(c.content, 300), "supplementary_semantic", c.source_location)

SearchSupplementaryChunks ==
    {[i \in DOMAIN Take(o, SupplementaryLimit) |-> ChunkResult(o[i])] : o \in BySimilarity(Chunks)}

\* _search_equipment_data: the EquipmentData rows of each tag; the score is
\* the stored match confidence, or 0.9 when that is None or 0.
DataResult(d) ==
    SearchResult(d.equipment_tag, d.document_id, "supplementary_documents", 1,
                 IF d.match_confidence = NoNumber \/ d.match_confidence = Some(0)
                 THEN Score(90) ELSE d.match_confidence[1],
                 DataSnippet(d), "equipment_data", d.source_location)

DataResultsOf(tag) ==
    {[i \in DOMAIN Take(o, SupplementaryLimit) |-> DataResult(o[i])] : o \in Orderings(DataOf(tag))}

SearchEquipmentData(tags) == ConcatAll([i \in DOMAIN tags |-> DataResultsOf(tags[i])])

\* ------------------------------------------------------------------------
\* SearchService.search: aggregation, re-scoring, sorting
\* ------------------------------------------------------------------------

\* Python truthiness of an optional string.
Truthy(x) == x # None /\ x # ""

\* The key add_result builds: (document.id, source_location) when the
\* location is truthy, else (document.id, page_number). The two shapes are
\* tuples that never compare equal, hence the `by` field.
ResultKey(r) ==
    IF Truthy(r.source_location)
    THEN [document_id |-> r.document, by |-> "source_location",
          source_location |-> r.source_location, page_number |-> 0]
    ELSE [document_id |-> r.document, by |-> "page_number",
          source_location |-> None, page_number |-> r.page_number]

\* document_counts.get(document_id, 0)
DocCount(counts, document_id) ==
    IF document_id \in DOMAIN counts THEN counts[document_id] ELSE 0

IsDuplicateNever(key, keys) == FALSE
\* `if key in existing_keys: return False`
IsDuplicate(key, keys) == key \in keys

OverDocLimitStrict(doc_count, m) == doc_count > m
\* `if doc_count >= max_per_document: return False`
OverDocLimit(doc_count, m) == doc_count >= m

\* The closure state of search(): what add_result reads and writes.
\* admitted_by records, per admitted result, its key and whether it came in
\* with skip_doc_limit.
Aggregate ==
    [all_results |-> all_results, existing_keys |-> existing_keys,
     document_counts |-> document_counts,
     included_equipment_tags |-> included_equipment_tags, admitted_by |-> admitted_by]

\* add_result's return value.
Accepts(st, r, skip_doc_limit) ==
    /\ ~IsDuplicate(ResultKey(r), st.existing_keys)
    /\ skip_doc_limit \/ ~OverDocLimit(DocCount(st.document_counts, r.document), max_per_document)

\* add_result's effect.
AddResult(st, r, skip_doc_limit) ==
    IF ~Accepts(st, r, skip_doc_limit) THEN st
    ELSE [st EXCEPT
            !.existing_keys = @ \cup {ResultKey(r)},
            !.document_counts =
                (r.document :> (DocCount(st.document_counts, r.document) + 1)) @@ @,
            !.all_results = Append(@, r),
            !.admitted_by = Append(@, [key |-> ResultKey(r), skip_doc_limit |-> skip_doc_limit])]

\* `for r in results: add_result(r)`
RECURSIVE AddAll(_, _)
AddAll(st, rs) ==
    IF rs = <<>> THEN st ELSE AddAll(AddResult(st, Head(rs), FALSE), Tail(rs))

\* The loop over type_results: the first result of a tag not yet included
\* is added with skip_doc_limit, every other result normally.
RECURSIVE TypeLoop(_, _)
TypeLoop(st, rs) ==
    IF rs = <<>> THEN st
    ELSE LET r == Head(rs)
             eq_tag == r.equipment
         IN IF eq_tag # None /\ eq_tag \notin st.included_equipment_tags
            THEN IF Accepts(st, r, TRUE)
                 THEN TypeLoop([AddResult(st, r, TRUE) EXCEPT
                                  !.included_equipment_tags = @ \cup {eq_tag}], Tail(rs))
                 ELSE TypeLoop(st, Tail(rs))
            ELSE TypeLoop(AddResult(st, r, FALSE), Tail(rs))

\* `if r.equipment and r.equipment.tag not in equipment_tags: append`
RECURSIVE ExtendTags(_, _)
ExtendTags(tags, rs) ==
    IF rs = <<>> THEN tags
    ELSE IF Head(rs).equipment # None /\ Head(rs).equipment \notin Range(tags)
         THEN ExtendTags(Append(tags, Head(rs).equipment), Tail(rs))
         ELSE ExtendTags(tags, Tail(rs))

\* The factors of _calculate_relevance_score, in tenths.
MatchTypeMultiplier(match_type) ==
    CASE match_type = "exact" -> 15
      [] match_type = "text_search" -> 13
      [] match_type = "semantic" -> 10
      [] match_type = "keyword" -> 8
      [] match_type = "supplementary_semantic" -> 11
      [] match_type = "equipment_data" -> 14
      [] OTHER -> 10

AlignedTypes(query_type) ==
    CASE query_type = "EQUIPMENT_LOOKUP" -> {"SPECIFICATION", "SCHEDULE_ENTRY"}
      [] query_type = "RELATIONSHIP" -> {"SPECIFICATION"}
      [] query_type = "UPSTREAM_DOWNSTREAM" -> {"SPECIFICATION"}
      [] query_type = "WIRE_TRACE" -> {"IO_POINT"}
      [] OTHER -> {}

StopWords ==
    {"what", "where", "is", "the", "a", "an", "and", "or", "for", "to", "of", "in", "on"}

\* score *= t/10
Times(score, tenths) == (score * tenths) \div 10

TagBoost(score, result_equipment_tag, tags) ==
    IF result_equipment_tag # None /\ tags # <<>>
       /\ \E i \in DOMAIN tags : Upper(result_equipment_tag) = Upper(tags[i])
    THEN Times(score, 13) ELSE score

AlignmentBoost(score, data_type, query_type) ==
    IF data_type # None /\ data_type \in AlignedTypes(query_type)
    THEN Times(score, 12) ELSE score

KeywordBoost(score, snippet, query) ==
    LET matches == Cardinality((Range(query) \ StopWords) \cap snippet.words)
    IN IF matches > 0 THEN Times(score, Min(10 + matches, 15)) ELSE score

SnippetQuality(score, snippet) ==
    IF snippet.length < 50 THEN Times(score, 8)
    ELSE IF snippet.length > 200 THEN Times(score, 11) ELSE score

\* `return min(score, 2.0)`
Cap(score) == Min(score, Score(200))

CalculateRelevanceScore(base_score, match_type, query, query_type, tags, result_tag, snippet, data_type) ==
    LET s1 == Times(base_score, MatchTypeMultiplier(match_type))
        s2 == TagBoost(s1, result_tag, tags)
        s3 == AlignmentBoost(s2, data_type, query_type)
        has_snippet == snippet # NoText /\ snippet.length > 0
        s4 == IF has_snippet THEN KeywordBoost(s3, snippet, query) ELSE s3
        s5 == IF has_snippet THEN SnippetQuality(s4, snippet) ELSE s4
    IN Cap(s5)

\* The re-scoring loop's body: the data type is read off the snippet of
\* equipment_data results only.
Rescored(r) ==
    LET data_type == IF r.match_type = "equipment_data" /\ r.snippet # NoText
                        /\ r.snippet.length > 0
                     THEN r.snippet.data_type ELSE None
    IN [r EXCEPT !.relevance_score =
            CalculateRelevanceScore(r.relevance_score, r.match_type, request.query,
                                    request.query_type, equipment_tags, r.equipment,
                                    r.snippet, data_type)]

\* A descending insertion that puts a result before the results of equal
\* score: the sort it builds reverses the order of ties.
RECURSIVE InsertBeforeTies(_, _)
InsertBeforeTies(sorted, r) ==
    IF sorted = <<>> THEN <<r>>
    ELSE IF Head(sorted).relevance_score > r.relevance_score
         THEN <<Head(sorted)>> \o InsertBeforeTies(Tail(sorted), r)
         ELSE <<r>> \o sorted

\* list.sort(key=relevance_score, reverse=True): stable, descending.
RECURSIVE InsertByScore(_, _)
InsertByScore(sorted, r) ==
    IF sorted = <<>> THEN <<r>>
    ELSE IF Head(sorted).relevance_score >= r.relevance_score
         THEN <<Head(sorted)>> \o InsertByScore(Tail(sorted), r)
         ELSE <<r>> \o sorted

RECURSIVE SortByScore(_)
SortByScore(rs) ==
    IF rs = <<>> THEN <<>>
    ELSE InsertByScore(SortByScore(SubSeq(rs, 1, Len(rs) - 1)), rs[Len(rs)])

\* ------------------------------------------------------------------------
\* SearchService.search: the steps
\* ------------------------------------------------------------------------

SearchInit ==
    /\ store \in {S \in SUBSET StoreRows : Cardinality(S) <= MaxStored}
    /\ request \in Requests
    /\ max_per_document \in 0..MaxPerDocumentArg
    /\ limit \in 1..MaxLimitArg
    /\ equipment_tags = <<>>
    /\ search_pc = "idle"
    /\ type_results = <<>>
    /\ all_results = <<>>
    /\ existing_keys = {}
    /\ document_counts = <<>>
    /\ included_equipment_tags = {}
    /\ admitted_by = <<>>
    /\ response = NoResponse
    /\ NotSearchIdle

searchInputs == <<store, request, max_per_document, limit>>

\* Writes add_result's closure state back.
Aggregated(st) ==
    /\ all_results' = st.all_results
    /\ existing_keys' = st.existing_keys
    /\ document_counts' = st.document_counts
    /\ included_equipment_tags' = st.included_equipment_tags
    /\ admitted_by' = st.admitted_by

aggregateVars ==
    <<all_results, existing_keys, document_counts, included_equipment_tags, admitted_by>>

\* search() up to the first source: the locals are initialised and the
\* equipment tags of the query extracted.
Search ==
    /\ search_pc = "idle"
    /\ equipment_tags' = request.tags
    /\ search_pc' = "type"
    /\ UNCHANGED <<searchInputs, type_results, aggregateVars, response>>
    /\ UNCHANGED notSearchVars

\* 0. Equipment type search.
EquipmentTypeSearch ==
    /\ search_pc = "type"
    /\ IF request.detected_equipment_type # None
       THEN \E rs \in SearchEquipmentByType(request.detected_equipment_type) :
                /\ type_results' = rs
                /\ Aggregated(TypeLoop(Aggregate, rs))
                /\ equipment_tags' = ExtendTags(equipment_tags, rs)
       ELSE UNCHANGED <<type_results, aggregateVars, equipment_tags>>
    /\ search_pc' = "exact"
    /\ UNCHANGED <<searchInputs, response>>
    /\ UNCHANGED notSearchVars

\* 1. Exact equipment match.
ExactSearch ==
    /\ search_pc = "exact"
    /\ IF equipment_tags # <<>>
       THEN \E rs \in ExactEquipmentSearch(equipment_tags) : Aggregated(AddAll(Aggregate, rs))
       ELSE UNCHANGED aggregateVars
    /\ search_pc' = "text"
    /\ UNCHANGED <<searchInputs, equipment_tags, type_results, response>>
    /\ UNCHANGED notSearchVars

\* 2. Text search for the equipment tags.
TextSearch ==
    /\ search_pc = "text"
    /\ IF equipment_tags # <<>>
       THEN \E rs \in TextSearchForEquipment(equipment_tags) : Aggregated(AddAll(Aggregate, rs))
       ELSE UNCHANGED aggregateVars
    /\ search_pc' = "semantic"
    /\ UNCHANGED <<searchInputs, equipment_tags, type_results, response>>
    /\ UNCHANGED notSearchVars

\* 3. Semantic search.
SemanticSearchStep ==
    /\ search_pc = "semantic"
    /\ \E rs \in SemanticSearch : Aggregated(AddAll(Aggregate, rs))
    /\ search_pc' = "keyword"
    /\ UNCHANGED <<searchInputs, equipment_tags, type_results, response>>
    /\ UNCHANGED notSearchVars

\* 4. Keyword search.
KeywordSearchStep ==
    /\ search_pc = "keyword"
    /\ \E rs \in KeywordSearch : Aggregated(AddAll(Aggregate, rs))
    /\ search_pc' = "chunks"
    /\ UNCHANGED <<searchInputs, equipment_tags, type_results, response>>
    /\ UNCHANGED notSearchVars

\* 5. Supplementary chunks.
SupplementaryChunkSearch ==
    /\ search_pc = "chunks"
    /\ \E rs \in SearchSupplementaryChunks : Aggregated(AddAll(Aggregate, rs))
    /\ search_pc' = "data"
    /\ UNCHANGED <<searchInputs, equipment_tags, type_results, response>>
    /\ UNCHANGED notSearchVars

\* 6. Equipment data.
EquipmentDataSearch ==
    /\ search_pc = "data"
    /\ IF equipment_tags # <<>>
       THEN \E rs \in SearchEquipmentData(equipment_tags) : Aggregated(AddAll(Aggregate, rs))
       ELSE UNCHANGED aggregateVars
    /\ search_pc' = "rescore"
    /\ UNCHANGED <<searchInputs, equipment_tags, type_results, response>>
    /\ UNCHANGED notSearchVars

\* The re-scoring loop over all_results.
Rescore ==
    /\ search_pc = "rescore"
    /\ all_results' = [i \in DOMAIN all_results |-> Rescored(all_results[i])]
    /\ search_pc' = "sort"
    /\ UNCHANGED <<searchInputs, equipment_tags, type_results, existing_keys,
                   document_counts, included_equipment_tags, admitted_by, response>>
    /\ UNCHANGED notSearchVars

\* The sort and the response.
SortAndReturn ==
    /\ search_pc = "sort"
    /\ all_results' = SortByScore(all_results)
    /\ response' = [query_type |-> request.query_type,
                    results |-> Take(all_results', limit),
                    total_count |-> Len(all_results')]
    /\ search_pc' = "done"
    /\ UNCHANGED <<searchInputs, equipment_tags, type_results, existing_keys,
                   document_counts, included_equipment_tags, admitted_by>>
    /\ UNCHANGED notSearchVars

SearchNext ==
    \/ Search
    \/ EquipmentTypeSearch
    \/ ExactSearch
    \/ TextSearch
    \/ SemanticSearchStep
    \/ KeywordSearchStep
    \/ SupplementaryChunkSearch
    \/ EquipmentDataSearch
    \/ Rescore
    \/ SortAndReturn

SearchSpec == SearchInit /\ [][SearchNext]_vars

\* ------------------------------------------------------------------------
\* Properties of search()
\* ------------------------------------------------------------------------

\* The document ids of the model.
DocumentIds == {r.document_id : r \in StoreRows}

\* C1: the aggregated list never holds two results with the same dedup key:
\* the same document id and, when a source location is set on both, the
\* same location; when it is set on neither, the same page number.
C1_UniqueDedupKeys ==
    \A i, j \in DOMAIN all_results :
        LET a == all_results[i]
            b == all_results[j]
        IN (i # j /\ a.document = b.document) =>
              /\ (Truthy(a.source_location) /\ Truthy(b.source_location))
                    => a.source_location # b.source_location
              /\ (~Truthy(a.source_location) /\ ~Truthy(b.source_location))
                    => a.page_number # b.page_number

\* C1 (witness): search() has returned, and a page the semantic source
\* offered is represented only by the exact match found earlier on that
\* page: the later result with the same key was dropped.
C1_Witness ==
    /\ search_pc = "done"
    /\ \E pg \in Pages :
          /\ \E i \in DOMAIN all_results :
                /\ all_results[i].match_type = "exact"
                /\ all_results[i].document = pg.document_id
                /\ all_results[i].page_number = pg.page_number
          /\ DocCount(document_counts, pg.document_id) < max_per_document
          /\ \A i \in DOMAIN all_results :
                (all_results[i].document = pg.document_id
                   /\ all_results[i].page_number = pg.page_number)
                => all_results[i].match_type = "exact"

\* C2: for every document id, at most max_per_document results of that
\* document were admitted without skip_doc_limit; and when the query is not
\* an equipment-type query, the aggregated list holds at most
\* max_per_document results of that document.
C2_PerDocumentQuota ==
    \A d \in DocumentIds :
        /\ Cardinality({i \in DOMAIN admitted_by :
                          /\ admitted_by[i].key.document_id = d
                          /\ ~admitted_by[i].skip_doc_limit}) <= max_per_document
        /\ request.detected_equipment_type = None
              => Cardinality({i \in DOMAIN all_results : all_results[i].document = d})
                    <= max_per_document

\* C2 (witness): search() has returned for a query that is not an
\* equipment-type query, a document has reached its quota of at least one
\* result, and a page of that document which the semantic source offered
\* has no result: it was refused by the quota.
C2_Witness ==
    /\ search_pc = "done"
    /\ request.detected_equipment_type = None
    /\ max_per_document >= 1
    /\ \E pg \in Pages :
          /\ Cardinality({i \in DOMAIN all_results :
                            all_results[i].document = pg.document_id}) = max_per_document
          /\ \A i \in DOMAIN all_results :
                ~(all_results[i].document = pg.document_id
                    /\ all_results[i].page_number = pg.page_number)

\* C3: for an equipment-type query, every equipment tag that occurs among
\* the results of the equipment-type source has at least one result in the
\* aggregated list once the type results have been added.
C3_EveryTypeTagIncluded ==
    (search_pc \notin {"idle", "type"} /\ request.detected_equipment_type # None) =>
        \A i \in DOMAIN type_results :
            type_results[i].equipment # None =>
                \E j \in DOMAIN all_results :
                    all_results[j].equipment = type_results[i].equipment

\* C4: every result search() returns has a relevance score between 0 and
\* 2.0 after re-scoring.
C4_ScoreWithinRange ==
    search_pc = "done" =>
        \A i \in DOMAIN response.results :
            /\ 0 <= response.results[i].relevance_score
            /\ response.results[i].relevance_score <= Score(200)

\* ------------------------------------------------------------------------
\* MultiAgentSearchService.query: map phase and reduce phase
\* ------------------------------------------------------------------------

\* The keys of self.agents.
Agents == {"equipment_spec", "relationship", "io_control", "alarm_interlock", "sequence"}

\* SearchAgent.name and SearchAgent.domain of the agent registered under a key.
AgentName(a) ==
    CASE a = "equipment_spec" -> "EquipmentSpecAgent"
      [] a = "relationship" -> "RelationshipAgent"
      [] a = "io_control" -> "IOControlAgent"
      [] a = "alarm_interlock" -> "AlarmInterlockAgent"
      [] a = "sequence" -> "SequenceAgent"

AgentDomain(a) ==
    CASE a = "equipment_spec" -> "equipment_specifications"
      [] a = "relationship" -> "equipment_relationships"
      [] a = "io_control" -> "io_control"
      [] a = "alarm_interlock" -> "alarm_interlock"
      [] a = "sequence" -> "sequence_operations"

\* _select_agents: the two base agents plus the detected domains; every
\* agent when no domain was detected.
SelectAgents(detected) ==
    IF detected = {} THEN Agents
    ELSE {"equipment_spec", "relationship"} \cup detected

\* An AgentSearchResult; relevance_score in thousandths.
AgentSearchResult(stype, doc, loc, tag, score) ==
    [source_type |-> stype, document_name |-> doc, page_or_location |-> loc,
     equipment_tag |-> tag, relevance_score |-> score]

\* What each agent's search finds in this model, when it finds something.
SearchResultsOf(a) ==
    CASE a = "equipment_spec" ->
             << AgentSearchResult("supplementary", "schedule.xlsx", "Sheet1:Row 2", "P-101", 800),
                AgentSearchResult("pdf", "drawing.pdf", "Page 1", "P-101", 900) >>
      [] a = "relationship" ->
             << AgentSearchResult("graph", "Equipment Relationship Graph", "", "P-101", 1000) >>
      [] a = "io_control" ->
             << AgentSearchResult("pdf", "Document 3", "Page 2", "P-101", 850) >>
      [] a = "alarm_interlock" ->
             << AgentSearchResult("pdf", "Document 3", "Page 2", "P-101", 900) >>
      [] a = "sequence" ->
             << AgentSearchResult("supplementary", "soo.docx", "Section 1", None, 950) >>

RECURSIVE SumRelevance(_)
SumRelevance(rs) ==
    IF rs = <<>> THEN 0 ELSE Head(rs).relevance_score + SumRelevance(Tail(rs))

\* _calculate_confidence, in thousandths.
CalculateConfidence(rs) ==
    IF rs = <<>> THEN 0
    ELSE LET count_factor == Min(Len(rs) * 200, 1000)
             avg_relevance == SumRelevance(rs) \div Len(rs)
             source_types == {rs[i].source_type : i \in DOMAIN rs}
             diversity_bonus == IF Cardinality(source_types) > 1
                                THEN 100 * (Cardinality(source_types) - 1) ELSE 0
         IN Min((count_factor * 4) \div 10 + (avg_relevance * 5) \div 10 + diversity_bonus,
                1000)

AgentFinding(name, domain, findings, sources, confidence) ==
    [agent_name |-> name, domain |-> domain, findings |-> findings,
     sources |-> sources, confidence |-> confidence]

\* The text-generation collaborator: "none" when no LLM is configured, "ok"
\* when its calls answer, "fails" when every call raises.
LlmStates == {"none", "ok", "fails"}

\* str(e) of the exception a failing LLM call raises.
LlmErrorMessage == "api unavailable"

\* _call_llm: the model's text, or "Analysis error: ..." when the call raises.
\* A text is the list of its parts.
CallLlm(llm_state, a) ==
    IF llm_state = "fails" THEN <<"Analysis error: ", LlmErrorMessage>>
    ELSE <<"analysis of ", a>>

\* _generate_fallback_findings: a count line and the first three results.
GenerateFallbackFindings(search_results) ==
    IF search_results = <<>> THEN <<"No relevant information found.">>
    ELSE <<"Found relevant result(s):">>
         \o [i \in DOMAIN Take(search_results, 3) |-> search_results[i].document_name]

\* SearchAgent.analyze on what the agent's search returned.
Analyze(a, search_results) ==
    IF search_results = <<>>
    THEN AgentFinding(AgentName(a), AgentDomain(a),
                      <<"No relevant information found in my domain.">>, <<>>, 0)
    ELSE AgentFinding(AgentName(a), AgentDomain(a),
                      IF llm # "none" THEN CallLlm(llm, a)
                      ELSE GenerateFallbackFindings(search_results),
                      search_results, CalculateConfidence(search_results))

\* What run() does: it returns the finding of a search that found
\* something ("found") or nothing ("nothing"), it raises ("raises"), or it
\* is still running when the 30 seconds of the map phase are over ("slow").
RunKinds == {"found", "nothing", "raises", "slow"}

\* str(e) of the exception a failing run raises.
ExceptionMessage(a) == "connection lost"

\* What future.result() returns for an agent whose run returned.
RunResult(a) ==
    Analyze(a, IF agent_run[a] = "found" THEN SearchResultsOf(a) ELSE <<>>)

ErrorFindingConfident(a, message) ==
    AgentFinding(a, AgentDomain(a), <<"Agent encountered an error: ", message>>,
                 SearchResultsOf(a), 500)
\* The finding the except branch of the map phase stores.
ErrorFinding(a, message) ==
    AgentFinding(a, AgentDomain(a), <<"Agent encountered an error: ", message>>, <<>>, 0)

\* The entries of `results`: key and value of the dict, in insertion order.
Entry(a, finding) == [agent |-> a, finding |-> finding]

\* _aggregate_sources: the sources of all findings, the first of each
\* (document_name, page_or_location, equipment_tag or "") kept, sorted by
\* relevance, at most twenty.
AggregatedSourcesLimit == 20

SourceKey(src) ==
    <<src.document_name, src.page_or_location,
      IF src.equipment_tag = None THEN "" ELSE src.equipment_tag>>

SourceDict(a, src) ==
    [document_name |-> src.document_name, page_number |-> src.page_or_location,
     equipment_tag |-> src.equipment_tag, source_type |-> src.source_type,
     match_type |-> <<"multi_agent_", a>>, relevance_score |-> src.relevance_score]

RECURSIVE AllSources(_)
AllSources(agent_results) ==
    IF agent_results = <<>> THEN <<>>
    ELSE LET e == Head(agent_results)
         IN [i \in DOMAIN e.finding.sources |->
                [key |-> SourceKey(e.finding.sources[i]),
                 dict |-> SourceDict(e.agent, e.finding.sources[i])]]
            \o AllSources(Tail(agent_results))

RECURSIVE FirstOfEachKey(_, _)
EveryOfEachKey(srcs, seen) == [i \in DOMAIN srcs |-> srcs[i].dict]
\* `if key not in seen`: the first source of each key is kept.
FirstOfEachKey(srcs, seen) ==
    IF srcs = <<>> THEN <<>>
    ELSE IF Head(srcs).key \in seen THEN FirstOfEachKey(Tail(srcs), seen)
         ELSE <<Head(srcs).dict>> \o FirstOfEachKey(Tail(srcs), seen \cup {Head(srcs).key})

AggregateSources(agent_results) ==
    Take(SortByScore(FirstOfEachKey(AllSources(agent_results), {})), AggregatedSourcesLimit)

\* _build_contributions: one AgentContribution per finding, sorted by
\* confidence (stable, descending).
AgentContribution(e) ==
    [agent_name |-> e.agent, domain |-> e.finding.domain, summary |-> e.finding.findings,
     confidence |-> e.finding.confidence, source_count |-> Len(e.finding.sources)]

RECURSIVE InsertByConfidence(_, _)
InsertByConfidence(sorted, c) ==
    IF sorted = <<>> THEN <<c>>
    ELSE IF Head(sorted).confidence >= c.confidence
         THEN <<Head(sorted)>> \o InsertByConfidence(Tail(sorted), c)
         ELSE <<c>> \o sorted

RECURSIVE BuildContributions(_)
BuildContributions(agent_results) ==
    IF agent_results = <<>> THEN <<>>
    ELSE InsertByConfidence(
             BuildContributions(SubSeq(agent_results, 1, Len(agent_results) - 1)),
             AgentContribution(agent_results[Len(agent_results)]))

\* _calculate_overall_confidence: the mean of the confidences weighted by
\* 1 + 0.1 per source, as the fraction weighted_sum / total_weight (weights
\* in tenths).
RECURSIVE WeightedSum(_)
WeightedSum(agent_results) ==
    IF agent_results = <<>> THEN 0
    ELSE Head(agent_results).finding.confidence * (10 + Len(Head(agent_results).finding.sources))
         + WeightedSum(Tail(agent_results))

RECURSIVE TotalWeight(_)
TotalWeight(agent_results) ==
    IF agent_results = <<>> THEN 0
    ELSE (10 + Len(Head(agent_results).finding.sources)) + TotalWeight(Tail(agent_results))

CalculateOverallConfidence(agent_results) ==
    IF agent_results = <<>> THEN [num |-> 0, den |-> 1]
    ELSE [num |-> WeightedSum(agent_results), den |-> TotalWeight(agent_results)]

\* _generate_fallback_answer: after the heading, the domain and the text of
\* each finding with a positive confidence and sources.
RECURSIVE FallbackParts(_)
FallbackParts(agent_results) ==
    IF agent_results = <<>> THEN <<>>
    ELSE (IF Head(agent_results).finding.confidence > 0
             /\ Head(agent_results).finding.sources # <<>>
          THEN <<Head(agent_results).finding.domain>> \o Head(agent_results).finding.findings
          ELSE <<>>)
         \o FallbackParts(Tail(agent_results))

GenerateFallbackAnswer(agent_results) ==
    <<"Multi-agent search results:">> \o FallbackParts(agent_results)

\* _synthesize_answer: the model's text, or, when the call raises,
\* _generate_fallback_answer({}).
SynthesizeAnswer(llm_state, agent_results) ==
    IF llm_state = "fails" THEN GenerateFallbackAnswer(<<>>)
    ELSE <<"synthesized answer">>

\* The answer of the reduce phase: synthesized when an LLM is configured,
\* else the fallback answer over the findings.
Answer(llm_state, agent_results) ==
    IF llm_state # "none" THEN SynthesizeAnswer(llm_state, agent_results)
    ELSE GenerateFallbackAnswer(agent_results)

\* _reduce_phase
ReducePhase(llm_state, agent_results) ==
    [answer |-> Answer(llm_state, agent_results),
     sources |-> AggregateSources(agent_results),
     agents_used |-> [i \in DOMAIN agent_results |-> agent_results[i].agent],
     agent_contributions |-> BuildContributions(agent_results),
     confidence |-> CalculateOverallConfidence(agent_results),
     was_multi_agent |-> TRUE]

\* The domain sets of the queries of this model.
DomainInputs ==
    { {}, {"equipment_spec"}, {"io_control"}, {"relationship", "alarm_interlock"} }

MapInit ==
    /\ domains \in DomainInputs
    /\ agent_run \in [SelectAgents(domains) -> RunKinds]
    /\ selected_agents = {}
    /\ future_done = {}
    /\ yielded = {}
    /\ results = <<>>
    /\ map_pc = "idle"
    /\ waited_for = {}
    /\ multi_response = <<>>
    /\ llm \in LlmStates
    /\ NotMapIdle

\* query() up to the loop of the map phase: the agents are selected and
\* each one's run is submitted to the pool, which has a worker for each.
Query ==
    /\ map_pc = "idle"
    /\ selected_agents' = SelectAgents(domains)
    /\ map_pc' = "collecting"
    /\ UNCHANGED <<llm, domains, agent_run, future_done, yielded, results, waited_for,
                   multi_response>>
    /\ UNCHANGED notMapVars

\* A worker thread: the run of agent a ends, by returning or by raising.
\* A slow run ends only after the 30 seconds are over, that is while the
\* caller is in the pool's shutdown.
AgentRunEnds(a) ==
    /\ a \in selected_agents \ future_done
    /\ \/ map_pc = "collecting" /\ agent_run[a] # "slow"
       \/ map_pc = "shutdown" /\ agent_run[a] = "slow"
    /\ future_done' = future_done \cup {a}
    /\ waited_for' = IF map_pc = "shutdown" THEN waited_for \cup {a} ELSE waited_for
    /\ UNCHANGED <<llm, domains, agent_run, selected_agents, yielded, results, map_pc,
                   multi_response>>
    /\ UNCHANGED notMapVars

\* One iteration of `for future in as_completed(futures, timeout=30)`.
Collect(a) ==
    /\ map_pc = "collecting"
    /\ a \in future_done \ yielded
    /\ yielded' = yielded \cup {a}
    /\ results' = Append(results,
                         Entry(a, IF agent_run[a] = "raises"
                                  THEN ErrorFinding(a, ExceptionMessage(a))
                                  ELSE RunResult(a)))
    /\ UNCHANGED <<llm, domains, agent_run, selected_agents, future_done, map_pc, waited_for,
                   multi_response>>
    /\ UNCHANGED notMapVars

\* as_completed has yielded every future: the loop and the `with` block
\* end, _map_phase returns.
MapPhaseReturns ==
    /\ map_pc = "collecting"
    /\ yielded = selected_agents
    /\ map_pc' = "reduce"
    /\ UNCHANGED <<llm, domains, agent_run, selected_agents, future_done, yielded, results,
                   waited_for, multi_response>>
    /\ UNCHANGED notMapVars

\* The 30 seconds are over while a future is pending: as_completed raises
\* TimeoutError out of the `for` statement, which no handler encloses, and
\* the `with` block is left through ThreadPoolExecutor.__exit__.
Timeout ==
    /\ map_pc = "collecting"
    /\ \E a \in selected_agents : agent_run[a] = "slow"
    /\ \A a \in selected_agents : agent_run[a] # "slow" => a \in future_done
    /\ map_pc' = "shutdown"
    /\ UNCHANGED <<llm, domains, agent_run, selected_agents, future_done, yielded, results,
                   waited_for, multi_response>>
    /\ UNCHANGED notMapVars

\* ThreadPoolExecutor.__exit__ is shutdown(wait=True): it returns when every
\* run has ended; then the TimeoutError leaves _map_phase and query().
QueryRaises ==
    /\ map_pc = "shutdown"
    /\ future_done = selected_agents
    /\ map_pc' = "raised"
    /\ UNCHANGED <<llm, domains, agent_run, selected_agents, future_done, yielded, results,
                   waited_for, multi_response>>
    /\ UNCHANGED notMapVars

\* The reduce phase and the return of query().
Reduce ==
    /\ map_pc = "reduce"
    /\ multi_response' = <<ReducePhase(llm, results)>>
    /\ map_pc' = "returned"
    /\ UNCHANGED <<llm, domains, agent_run, selected_agents, future_done, yielded, results,
                   waited_for>>
    /\ UNCHANGED notMapVars

MapNext ==
    \/ Query
    \/ \E a \in Agents : AgentRunEnds(a)
    \/ \E a \in Agents : Collect(a)
    \/ MapPhaseReturns
    \/ Timeout
    \/ QueryRaises
    \/ Reduce

MapSpec == MapInit /\ [][MapNext]_vars

\* The finding stored for agent a.
FindingOf(a) == results[CHOOSE i \in DOMAIN results : results[i].agent = a].finding

\* C9: when no run is slow, a run that raises does not make query() raise:
\* the map phase returns exactly one finding per selected agent; the
\* finding of an agent whose run raised has confidence 0, no sources and a
\* text that contains the exception's message; the finding of every other
\* agent is what its run returned; and the response names every agent.
C9_FailedAgentDegrades ==
    (\A a \in selected_agents : agent_run[a] # "slow") =>
        /\ map_pc \notin {"shutdown", "raised"}
        /\ map_pc \in {"reduce", "returned"} =>
              /\ Len(results) = Cardinality(selected_agents)
              /\ \A a \in selected_agents :
                    /\ Cardinality({i \in DOMAIN results : results[i].agent = a}) = 1
                    /\ agent_run[a] = "raises" =>
                          /\ FindingOf(a).confidence = 0
                          /\ FindingOf(a).sources = <<>>
                          /\ ExceptionMessage(a) \in Range(FindingOf(a).findings)
                    /\ agent_run[a] # "raises" => FindingOf(a) = RunResult(a)
        /\ map_pc = "returned" =>
              /\ Len(multi_response) = 1
              /\ Range(multi_response[1].agents_used) = selected_agents

\* C9 (witness): query() has returned a response after exactly one of the
\* selected agents raised and another one found something.
C9_Witness ==
    /\ map_pc = "returned"
    /\ Cardinality({a \in selected_agents : agent_run[a] = "raises"}) = 1
    /\ \E a \in selected_agents : agent_run[a] = "found"
    /\ \A a \in selected_agents : agent_run[a] # "slow"
    /\ Len(multi_response) = 1

\* C10: when a selected agent has not completed at the 30-second timeout,
\* query() does not raise, the caller does not wait for that agent, and the
\* response holds a zero-confidence finding for it.
C10_TimeoutDegrades ==
    \A a \in selected_agents :
        agent_run[a] = "slow" =>
            /\ map_pc # "raised"
            /\ waited_for = {}
            /\ map_pc = "returned" =>
                  \E i \in DOMAIN results :
                      results[i].agent = a /\ results[i].finding.confidence = 0

\* C11: the response does not depend on the order in which the agents
\* completed: for the findings the map phase stored, every insertion order
\* gives the sources list, the order of agent_contributions and the overall
\* confidence that the response holds.
C11_CompletionOrderIndependent ==
    map_pc = "returned" =>
        \A o \in Orderings(Range(results)) :
            /\ AggregateSources(o) = multi_response[1].sources
            /\ BuildContributions(o) = multi_response[1].agent_contributions
            /\ CalculateOverallConfidence(o) = multi_response[1].confidence

\* C12: when the text-generation collaborator is configured and every call
\* raises, the answer of the response is the fallback text built from the
\* agents' findings: the heading followed by the domain and text of each
\* finding that has a positive confidence and sources.
C12_LlmFailureFallsBack ==
    (map_pc = "returned" /\ llm = "fails") =>
        multi_response[1].answer = GenerateFallbackAnswer(results)

\* ------------------------------------------------------------------------
\* MultiAgentSearchService.should_use_multi_agent and the smart route
\* ------------------------------------------------------------------------

MaxQueryTags == 5

\* The comprehensive keywords.
ComprehensiveKeywords ==
    {"comprehensive", "everything about", "all information", "complete overview",
     "full details", "entire system"}

\* DOMAIN_KEYWORDS, two keywords of each domain.
DomainKeywords(d) ==
    CASE d = "equipment_spec" -> {"spec", "voltage"}
      [] d = "relationship" -> {"feeds", "power"}
      [] d = "io_control" -> {"plc", "signal"}
      [] d = "alarm_interlock" -> {"alarm", "trip"}
      [] d = "sequence" -> {"sequence", "start"}

\* The keywords a query of the model may contain, and the tags
\* extract_equipment_tags may find in it (distinct, upper-cased).
QueryPhrases == {"comprehensive", "full details", "spec", "feeds", "plc", "alarm", "sequence"}
QueryTagPool == <<"P-101", "P-102", "P-103", "P-104", "P-105", "P-106">>

\* A query: the keywords that occur in query.lower() and the tags extracted.
RouteQueries ==
    {[phrases |-> ph, tags |-> Take(QueryTagPool, n)] :
        ph \in SUBSET QueryPhrases, n \in 0..MaxQueryTags}

PriorResults == {<<>>, <<"r1">>, <<"r1", "r2">>}

\* _detect_domains: the domains one of whose keywords occurs in the query.
DetectDomains(q) == {d \in Agents : DomainKeywords(d) \cap q.phrases # {}}

\* _extract_equipment_tags
ExtractEquipmentTags(q) == q.tags

ManyTagsOver(tags) == Len(tags) > 4
\* `if len(equipment_tags) >= 4`
ManyTags(tags) == Len(tags) >= 4

\* should_use_multi_agent
ShouldUseMultiAgent(q, search_results) ==
    LET has_comprehensive_keyword == \E kw \in ComprehensiveKeywords : kw \in q.phrases
        tags == ExtractEquipmentTags(q)
        detected == DetectDomains(q)
    IN IF has_comprehensive_keyword /\ Len(tags) >= 2 THEN TRUE
       ELSE IF Cardinality(detected) >= 3 THEN TRUE
       ELSE IF ManyTags(tags) THEN TRUE
       ELSE FALSE

RouteInit ==
    /\ route_query \in RouteQueries
    /\ prior_results \in PriorResults
    /\ route_pc = "idle"
    /\ use_multi_agent = FALSE
    /\ was_multi_agent = FALSE
    /\ NotRouteIdle

\* ask_question_smart up to the routing decision.
DecideRouting ==
    /\ route_pc = "idle"
    /\ use_multi_agent' = ShouldUseMultiAgent(route_query, prior_results)
    /\ route_pc' = "decided"
    /\ UNCHANGED <<route_query, prior_results, was_multi_agent>>
    /\ UNCHANGED notRouteVars

\* The multi-agent branch of the route.
AnswerMultiAgent ==
    /\ route_pc = "decided"
    /\ use_multi_agent
    /\ was_multi_agent' = TRUE
    /\ route_pc' = "answered"
    /\ UNCHANGED <<route_query, prior_results, use_multi_agent>>
    /\ UNCHANGED notRouteVars

\* The single-agent branch of the route.
AnswerSingleAgent ==
    /\ route_pc = "decided"
    /\ ~use_multi_agent
    /\ was_multi_agent' = FALSE
    /\ route_pc' = "answered"
    /\ UNCHANGED <<route_query, prior_results, use_multi_agent>>
    /\ UNCHANGED notRouteVars

RouteNext == DecideRouting \/ AnswerMultiAgent \/ AnswerSingleAgent

RouteSpec == RouteInit /\ [][RouteNext]_vars

\* C13: should_use_multi_agent returns true exactly when the query holds a
\* comprehensive keyword and at least 2 tags, or at least 3 domains are
\* detected, or at least 4 tags are extracted; the result is the same for
\* every value of the prior results.
C13_RoutingRule ==
    route_pc # "idle" =>
        LET keyword == route_query.phrases \cap ComprehensiveKeywords # {}
            ntags == Len(route_query.tags)
            ndomains == Cardinality({d \in Agents : DomainKeywords(d) \cap route_query.phrases # {}})
        IN /\ use_multi_agent <=> ((keyword /\ ntags >= 2) \/ ndomains >= 3 \/ ntags >= 4)
           /\ \A pr \in PriorResults : ShouldUseMultiAgent(route_query, pr) = use_multi_agent

\* C13 (witness): a query with 5 tags, one detected domain and no
\* comprehensive keyword has been routed to the multi-agent search.
C13_Witness ==
    /\ route_pc = "answered"
    /\ Len(route_query.tags) = 5
    /\ Cardinality(DetectDomains(route_query)) = 1
    /\ route_query.phrases \cap ComprehensiveKeywords = {}
    /\ was_multi_agent

\* ------------------------------------------------------------------------
\* SearchService.expand_equipment_tags_with_aliases
\* ------------------------------------------------------------------------

MaxInputTags == 2

\* The Equipment rows the alias lookups join with: one pump in project 1,
\* one in project 2.
AliasEquipment ==
    { [id |-> 1, tag |-> "P-101", project_id |-> 1],
      [id |-> 2, tag |-> "P-102", project_id |-> 2] }

\* The values of the argument project_id: None (0, as falsy as None in
\* `if project_id:`) and the two projects.
AliasProjects == {0, 1, 2}

\* The EquipmentAlias rows a store may hold.
AliasRows ==
    { [equipment_id |-> 1, alias |-> "pmp-1"],
      [equipment_id |-> 1, alias |-> "Pump-A"],
      [equipment_id |-> 2, alias |-> "PMP-1"],
      [equipment_id |-> 2, alias |-> "P-999"] }

\* The tags a caller may pass.
InputTagPool == {"P-101", "p-101", "pmp-1", "P-999"}

InputTagLists == UNION {[1..n -> InputTagPool] : n \in 0..MaxInputTags}

\* The upper-cased aliases, among the rows `aliases`, of the equipment with
\* this id.
AliasesIn(aliases, equipment_id) ==
    {Upper(r.alias) : r \in {x \in aliases : x.equipment_id = equipment_id}}

\* The upper-cased aliases of the equipment with this id.
AliasesOf(equipment_id) == AliasesIn(alias_table, equipment_id)

\* What the loop body adds to expanded_tags for one tag, on a database
\* holding the rows `equipment` and `aliases`. Only the lookup of the
\* canonical tag is filtered by project; the alias lookup and the lookup of
\* the alias's equipment are not.
ExpansionIn(equipment, aliases, project_id, tag) ==
    LET canonical == {e \in equipment :
                         /\ Upper(e.tag) = Upper(tag)
                         /\ project_id # 0 => e.project_id = project_id}
        alias_matches == {r \in aliases : Upper(r.alias) = Upper(tag)}
        owners == {e \in equipment : \E r \in alias_matches : r.equipment_id = e.id}
    IN UNION {AliasesIn(aliases, e.id) : e \in canonical}
       \cup {Upper(e.tag) : e \in owners}
       \cup UNION {AliasesIn(aliases, e.id) : e \in owners}

\* What the loop body adds to expanded_tags for one tag.
ExpansionOf(tag) == ExpansionIn(AliasEquipment, alias_table, alias_project_id, tag)

\* expanded_tags after the loop on a database holding `equipment` and
\* `aliases`: the original tags and every expansion.
ExpandedTagsIn(equipment, aliases, project_id, tags) ==
    Range(tags) \cup
    UNION {ExpansionIn(equipment, aliases, project_id, tags[i]) : i \in DOMAIN tags}

\* expanded_tags after the loop: the original tags and every expansion.
ExpandedTags(tags) == Range(tags) \cup UNION {ExpansionOf(tags[i]) : i \in DOMAIN tags}

\* `for t in expanded_tags: if t not in [x.upper() for x in result]: append`
RECURSIVE AppendMissing(_, _)
AppendMissing(result_list, order) ==
    IF order = <<>> THEN result_list
    ELSE IF Head(order) \notin {Upper(x) : x \in Range(result_list)}
         THEN AppendMissing(Append(result_list, Head(order)), Tail(order))
         ELSE AppendMissing(result_list, Tail(order))

OriginalTagsUpper(tags) == [i \in DOMAIN tags |-> Upper(tags[i])]
\* `result = list(tags)`
OriginalTags(tags) == tags

AliasInit ==
    /\ alias_table \in SUBSET AliasRows
    /\ input_tags \in InputTagLists
    /\ alias_project_id \in AliasProjects
    /\ alias_pc = "idle"
    /\ expanded_result = <<>>
    /\ NotAliasIdle

\* expand_equipment_tags_with_aliases; the set expanded_tags is iterated in
\* an order the caller does not control.
ExpandEquipmentTagsWithAliases ==
    /\ alias_pc = "idle"
    /\ \E order \in Orderings(ExpandedTags(input_tags)) :
          expanded_result' = AppendMissing(OriginalTags(input_tags), order)
    /\ alias_pc' = "done"
    /\ UNCHANGED <<alias_table, input_tags, alias_project_id>>
    /\ UNCHANGED notAliasVars

AliasNext == ExpandEquipmentTagsWithAliases

AliasSpec == AliasInit /\ [][AliasNext]_vars

\* C14: the first len(tags) elements of the list returned are exactly the
\* input tags, in their order.
C14_OriginalTagsArePrefix ==
    alias_pc = "done" =>
        /\ Len(expanded_result) >= Len(input_tags)
        /\ SubSeq(expanded_result, 1, Len(input_tags)) = input_tags

\* C14 (witness): two tags, the first in lower case, were expanded with
\* aliases from the table.
C14_Witness ==
    /\ alias_pc = "done"
    /\ Len(input_tags) = 2
    /\ input_tags[1] # Upper(input_tags[1])
    /\ Len(expanded_result) > Len(input_tags) + 1

\* ------------------------------------------------------------------------
\* AliasService.fuzzy_match and find_equipment_by_tag
\* ------------------------------------------------------------------------

MaxCandidates == 2

\* MATCH_THRESHOLD, in percent like fuzz.ratio.
MatchThreshold == 85

\* An alias of a candidate: fuzz.ratio of its normalized text with the
\* normalized tag, whether it equals the tag case-insensitively, and its
\* stored confidence in percent (<<>> for NULL).
CandidateAlias(ratio, exact, confidence) ==
    [ratio |-> ratio, exact |-> exact, confidence |-> confidence]

\* An Equipment row as the matching reads it: fuzz.ratio(normalize_tag(tag),
\* normalize_tag(eq.tag)), whether eq.tag equals the tag case-insensitively,
\* and the aliases.
Candidate(id, ratio, exact, aliases) ==
    [id |-> id, ratio |-> ratio, exact |-> exact, aliases |-> aliases]

FuzzyCandidates ==
    { Candidate(1, 100, TRUE, <<>>),
      Candidate(2, 90, FALSE, <<>>),
      Candidate(3, 85, FALSE, <<CandidateAlias(40, FALSE, NoNumber)>>),
      Candidate(4, 84, FALSE, <<CandidateAlias(60, FALSE, Some(80))>>),
      Candidate(5, 40, FALSE, <<CandidateAlias(100, TRUE, NoNumber)>>),
      Candidate(6, 50, FALSE, <<CandidateAlias(30, FALSE, Some(70)), CandidateAlias(90, FALSE, Some(70))>>),
      Candidate(7, 0, FALSE, <<>>),
      Candidate(8, 100, FALSE, <<CandidateAlias(100, TRUE, Some(75))>>) }

FuzzyTags == {"", "RTU-F04"}

\* The score of one candidate: the best ratio over its tag and its aliases.
RECURSIVE CandidateScore(_, _)
CandidateScore(score, aliases) ==
    IF aliases = <<>> THEN score
    ELSE CandidateScore(IF Head(aliases).ratio > score THEN Head(aliases).ratio ELSE score,
                        Tail(aliases))

\* The loop of fuzzy_match: a later candidate replaces the best one only
\* with a strictly higher score.
RECURSIVE BestMatch(_, _)
BestMatch(best, candidates) ==
    IF candidates = <<>> THEN best
    ELSE LET eq == Head(candidates)
             score == CandidateScore(eq.ratio, eq.aliases)
         IN BestMatch(IF score > best.score THEN [match |-> Some(eq.id), score |-> score]
                      ELSE best,
                      Tail(candidates))

MeetsThresholdStrict(score) == score > MatchThreshold
\* `if best_score >= self.MATCH_THRESHOLD`
MeetsThreshold(score) == score >= MatchThreshold

\* fuzzy_match: (equipment id or None, confidence in percent).
FuzzyMatch(tag, candidates) ==
    IF tag = "" \/ candidates = <<>> THEN [equipment |-> NoNumber, confidence |-> 0]
    ELSE LET best == BestMatch([match |-> NoNumber, score |-> 0], candidates)
         IN IF MeetsThreshold(best.score)
            THEN [equipment |-> best.match, confidence |-> best.score]
            ELSE [equipment |-> NoNumber, confidence |-> best.score]

\* The rows the exact queries of find_equipment_by_tag match; .first()
\* returns any one of them.
ExactTagMatches(tag, candidates) ==
    {i \in DOMAIN candidates : tag # "" /\ candidates[i].exact}

ExactAliasMatches(tag, candidates) ==
    {<<i, j>> \in (DOMAIN candidates) \X (1..2) :
        /\ tag # ""
        /\ j \in DOMAIN candidates[i].aliases
        /\ candidates[i].aliases[j].exact}

\* find_equipment_by_tag: the outcomes it may return.
FindEquipmentByTag(tag, candidates) ==
    IF ExactTagMatches(tag, candidates) # {}
    THEN {[equipment |-> Some(candidates[i].id), confidence |-> 100] :
             i \in ExactTagMatches(tag, candidates)}
    ELSE IF ExactAliasMatches(tag, candidates) # {}
    THEN {[equipment |-> Some(candidates[m[1]].id),
           confidence |-> LET c == candidates[m[1]].aliases[m[2]].confidence
                          IN IF c = NoNumber \/ c = Some(0) THEN 90 ELSE c[1]] :
             m \in ExactAliasMatches(tag, candidates)}
    ELSE LET fm == FuzzyMatch(tag, candidates)
         IN IF fm.equipment # NoNumber /\ fm.equipment # Some(0)
            THEN {[equipment |-> fm.equipment, confidence |-> fm.confidence]}
            ELSE {[equipment |-> NoNumber, confidence |-> fm.confidence]}

FuzzyInit ==
    /\ fuzzy_tag \in FuzzyTags
    /\ equipment_list \in UNION {Orderings(S) : S \in {T \in SUBSET FuzzyCandidates :
                                                           Cardinality(T) <= MaxCandidates}}
    /\ fuzzy_pc = "idle"
    /\ fuzzy_result = [equipment |-> NoNumber, confidence |-> 0]
    /\ NotFuzzyIdle

\* A call of fuzzy_match(tag, equipment_list).
FuzzyMatchCall ==
    /\ fuzzy_pc = "idle"
    /\ fuzzy_result' = FuzzyMatch(fuzzy_tag, equipment_list)
    /\ fuzzy_pc' = "matched"
    /\ UNCHANGED <<fuzzy_tag, equipment_list>>
    /\ UNCHANGED notFuzzyVars

\* A call of find_equipment_by_tag(db, tag) on a store holding the rows.
FindEquipmentByTagCall ==
    /\ fuzzy_pc = "idle"
    /\ fuzzy_result' \in FindEquipmentByTag(fuzzy_tag, equipment_list)
    /\ fuzzy_pc' = "found"
    /\ UNCHANGED <<fuzzy_tag, equipment_list>>
    /\ UNCHANGED notFuzzyVars

FuzzyNext == FuzzyMatchCall \/ FindEquipmentByTagCall

FuzzySpec == FuzzyInit /\ [][FuzzyNext]_vars

\* The similarities fuzzy_match observes: every candidate's tag and aliases.
ObservedSimilarities ==
    {equipment_list[i].ratio : i \in DOMAIN equipment_list}
    \cup UNION {{equipment_list[i].aliases[j].ratio : j \in DOMAIN equipment_list[i].aliases} :
                  i \in DOMAIN equipment_list}

BestSimilarity ==
    IF fuzzy_tag = "" \/ ObservedSimilarities = {} THEN 0
    ELSE CHOOSE r \in ObservedSimilarities : \A o \in ObservedSimilarities : o <= r

\* The candidates whose tag or some alias attains the best similarity.
AttainsBest(id) ==
    \E i \in DOMAIN equipment_list :
        /\ equipment_list[i].id = id
        /\ \/ equipment_list[i].ratio = BestSimilarity
           \/ \E j \in DOMAIN equipment_list[i].aliases :
                  equipment_list[i].aliases[j].ratio = BestSimilarity

NoExactMatch ==
    /\ ExactTagMatches(fuzzy_tag, equipment_list) = {}
    /\ ExactAliasMatches(fuzzy_tag, equipment_list) = {}

\* C15: fuzzy_match returns an equipment only when the best similarity over
\* the candidates' tags and aliases is at least 0.85, and then it is a
\* candidate attaining that best similarity, returned with it; otherwise it
\* returns no equipment with the best similarity observed.
\* find_equipment_by_tag returns the same outcome when neither an exact tag
\* nor an exact alias matches.
C15_FuzzyThreshold ==
    (fuzzy_pc = "matched" \/ (fuzzy_pc = "found" /\ NoExactMatch)) =>
        /\ fuzzy_result.confidence = BestSimilarity
        /\ (fuzzy_result.equipment # NoNumber) <=> (BestSimilarity >= 85)
        /\ fuzzy_result.equipment # NoNumber => AttainsBest(fuzzy_result.equipment[1])

\* C15 witness: find_equipment_by_tag, with no exact match among two
\* candidates, returned the one that is exactly at the threshold.
C15_Witness ==
    /\ fuzzy_pc = "found"
    /\ NoExactMatch
    /\ Len(equipment_list) = 2
    /\ fuzzy_result.equipment = Some(3)
    /\ fuzzy_result.confidence = 85

\* ------------------------------------------------------------------------
\* _aggregate_sources on findings with many sources
\* ------------------------------------------------------------------------

\* The most results one agent's search returns in this model (the agents
\* cut their lists at 10 or 12).
MaxAgentSources == 10

AggDocuments == <<"drawing.pdf", "schedule.xlsx", "soo.docx">>

AggLocations ==
    <<"Page 1", "Page 2", "Page 3", "Page 4", "Page 5", "Page 6",
      "Page 7", "Page 8", "Page 9", "Page 10", "Page 11", "Page 12">>

AggAgentOrders ==
    { <<"equipment_spec", "relationship", "io_control", "alarm_interlock", "sequence">>,
      <<"sequence", "alarm_interlock", "io_control", "relationship", "equipment_spec">> }

AgentIndex(a) ==
    CHOOSE i \in 1..5 :
        <<"equipment_spec", "relationship", "io_control", "alarm_interlock", "sequence">>[i] = a

\* The j-th result of agent a. Agents 1 and 4, and 2 and 5, report the same
\* documents and locations with different scores; a result without a tag
\* carries None from one agent and "" from the other.
AggSource(a, j) ==
    LET ai == AgentIndex(a)
    IN AgentSearchResult("pdf", AggDocuments[((ai + j) % 3) + 1], AggLocations[j],
                         IF j % 3 # 0 THEN "P-101" ELSE IF ai % 2 = 1 THEN None ELSE "",
                         300 + ((ai * 37 + j * 53) % 70) * 10)

AggFinding(a, count) ==
    LET sources == [j \in 1..count |-> AggSource(a, j)]
    IN AgentFinding(AgentName(a), AgentDomain(a), <<"analysis of ", a>>, sources,
                    CalculateConfidence(sources))

AggInit ==
    /\ \E order \in AggAgentOrders :
         \E count \in [Agents -> {0, 3, MaxAgentSources}] :
            agg_results = [i \in 1..5 |-> Entry(order[i], AggFinding(order[i], count[order[i]]))]
    /\ agg_pc = "idle"
    /\ agg_sources = <<>>
    /\ NotAggIdle

\* A call of _aggregate_sources(agent_results).
AggregateSourcesCall ==
    /\ agg_pc = "idle"
    /\ agg_sources' = AggregateSources(agg_results)
    /\ agg_pc' = "aggregated"
    /\ UNCHANGED agg_results
    /\ UNCHANGED notAggVars

AggNext == AggregateSourcesCall

AggSpec == AggInit /\ [][AggNext]_vars

\* The deduplicated sources: one per key, before sorting and cutting.
DeduplicatedSources == Range(FirstOfEachKey(AllSources(agg_results), {}))

\* C16: the sources list has no two entries with the same (document_name,
\* page_or_location, equipment_tag) key, has at most 20 entries, is in
\* non-increasing relevance_score order, and no deduplicated source that
\* was left out has a higher relevance_score than one that was kept.
C16_SourcesDedupedSortedTop20 ==
    agg_pc = "aggregated" =>
        /\ \A i, j \in DOMAIN agg_sources :
              (/\ agg_sources[i].document_name = agg_sources[j].document_name
               /\ agg_sources[i].page_number = agg_sources[j].page_number
               /\ agg_sources[i].equipment_tag = agg_sources[j].equipment_tag) => i = j
        /\ Len(agg_sources) <= 20
        /\ \A i \in 1..(Len(agg_sources) - 1) :
              agg_sources[i].relevance_score >= agg_sources[i + 1].relevance_score
        /\ \A out \in DeduplicatedSources \ Range(agg_sources) :
              \A kept \in Range(agg_sources) : out.relevance_score <= kept.relevance_score

\* C16 witness: two agents reported the same document and location, more
\* than 20 sources were left after deduplication, and 20 were returned.
C16_Witness ==
    /\ agg_pc = "aggregated"
    /\ Len(AllSources(agg_results)) > Cardinality(DeduplicatedSources)
    /\ Cardinality(DeduplicatedSources) > 20
    /\ Len(agg_sources) = 20

\* ------------------------------------------------------------------------
\* SearchService.rewrite_query and the queries search() uses
\* ------------------------------------------------------------------------

\* Queries and answers are lists of characters over this alphabet.
RewriteChars == {"w", "-", " ", "\"", "'"}

MaxResponseLen == 4

RewriteQueries == { <<"w", " ", "w">>, <<"w", "-", "w">> }

\* The collaborator: no client configured, a client whose call raises, or
\* a client answering with a text.
RewriteLlms ==
    {[state |-> "none", text |-> <<>>], [state |-> "raises", text |-> <<>>]}
    \cup {[state |-> "answers", text |-> t] :
            t \in UNION {[1..n -> RewriteChars] : n \in 0..MaxResponseLen}}

\* str.strip()
RECURSIVE StripLeft(_)
StripLeft(t) == IF t # <<>> /\ Head(t) = " " THEN StripLeft(Tail(t)) ELSE t

RECURSIVE StripRight(_)
StripRight(t) ==
    IF t # <<>> /\ t[Len(t)] = " " THEN StripRight(SubSeq(t, 1, Len(t) - 1)) ELSE t

Strip(t) == StripRight(StripLeft(t))

\* str.replace(c, '')
Without(t, c) == SelectSeq(t, LAMBDA x : x # c)

\* ' '.join(t.split()): runs of blanks become one blank, none at the ends.
RECURSIVE CollapseBlanks(_)
CollapseBlanks(t) ==
    IF Len(t) < 2 THEN t
    ELSE IF t[1] = " " /\ t[2] = " " THEN CollapseBlanks(Tail(t))
    ELSE <<Head(t)>> \o CollapseBlanks(Tail(t))

NormalizeWhitespace(t) == Strip(CollapseBlanks(t))

\* `word in query_lower`
Contains(t, word) ==
    \E i \in 1..(Len(t) - Len(word) + 1) : SubSeq(t, i, i + Len(word) - 1) = word

\* classify_query on texts of the alphabet: of its keywords only 'w-' can
\* occur, and no equipment tag can.
ClassifyQuery(query) ==
    IF Contains(query, <<"w", "-">>) THEN "WIRE_TRACE" ELSE "GENERAL"

TooShortLoose(rewritten) == Len(rewritten) < 2
\* `if len(rewritten) < 3`
TooShort(rewritten) == Len(rewritten) < 3

\* rewrite_query: (rewritten_query, original_query).
RewriteQuery(collaborator, original_query) ==
    IF collaborator.state = "none" THEN <<original_query, original_query>>
    ELSE IF collaborator.state = "raises" THEN <<original_query, original_query>>
    ELSE LET stripped == Strip(collaborator.text)
             unquoted == Strip(Without(Without(stripped, "\""), "'"))
             rewritten == NormalizeWhitespace(unquoted)
         IN IF TooShort(rewritten) THEN <<original_query, original_query>>
            ELSE <<rewritten, original_query>>

\* search(): step 0, the classification, and the query each step is run
\* with.
SearchQueries(collaborator, query, flag) ==
    LET rw == IF flag /\ collaborator.state # "none"
              THEN RewriteQuery(collaborator, query) ELSE <<query, query>>
        search_query == rw[1]
        original_query == rw[2]
    IN [query_type |-> ClassifyQuery(original_query),
        detect_type_query |-> original_query,
        tag_queries |-> {original_query, search_query},
        semantic_query |-> search_query,
        keyword_query |-> search_query,
        supplementary_query |-> search_query,
        scoring_query |-> query,
        response_query |-> query]

RewriteInit ==
    /\ rw_query \in RewriteQueries
    /\ rw_flag \in BOOLEAN
    /\ rw_llm \in RewriteLlms
    /\ rw_pc = "idle"
    /\ rw_returned = <<>>
    /\ rw_search = <<>>
    /\ NotRewriteIdle

\* A call of rewrite_query(original_query).
RewriteQueryCall ==
    /\ rw_pc = "idle"
    /\ rw_returned' = RewriteQuery(rw_llm, rw_query)
    /\ rw_pc' = "rewritten"
    /\ UNCHANGED <<rw_query, rw_flag, rw_llm, rw_search>>
    /\ UNCHANGED notRewriteVars

\* A call of search(db, query, rewrite_query=flag), as far as the query
\* texts go.
SearchRewriteCall ==
    /\ rw_pc = "idle"
    /\ rw_search' = SearchQueries(rw_llm, rw_query, rw_flag)
    /\ rw_pc' = "searched"
    /\ UNCHANGED <<rw_query, rw_flag, rw_llm, rw_returned>>
    /\ UNCHANGED notRewriteVars

RewriteNext == RewriteQueryCall \/ SearchRewriteCall

RewriteSpec == RewriteInit /\ [][RewriteNext]_vars

\* C17: when the rewrite collaborator is not configured, raises, or answers
\* with fewer than 3 characters, search() runs every source with the
\* original query and returns; the query type is always the classification
\* of the original query.
C17_RewriteFallsBack ==
    LET falls_back == rw_llm.state \in {"none", "raises"} \/ Len(rw_llm.text) < 3
    IN /\ rw_pc = "searched" => rw_search.query_type = ClassifyQuery(rw_query)
       /\ (rw_pc = "searched" /\ falls_back) =>
              /\ rw_search.semantic_query = rw_query
              /\ rw_search.keyword_query = rw_query
              /\ rw_search.supplementary_query = rw_query
              /\ rw_search.tag_queries = {rw_query}
       /\ (rw_pc = "rewritten" /\ falls_back) => rw_returned = <<rw_query, rw_query>>

\* C17 witness: the collaborator answered "w-" to the query "w w" with
\* rewriting on; search ran with the original query, classified GENERAL.
C17_Witness ==
    /\ rw_pc = "searched"
    /\ rw_flag
    /\ rw_llm = [state |-> "answers", text |-> <<"w", "-">>]
    /\ rw_query = <<"w", " ", "w">>
    /\ rw_search.semantic_query = rw_query
    /\ rw_search.query_type = "GENERAL"

\* ------------------------------------------------------------------------
\* GraphService.get_equipment_connections, on the store of the power flow
\* ------------------------------------------------------------------------

\* The equipment table and the equipment_relationships table of the store.
GraphEquipment ==
    { [id |-> 1, tag |-> "MCC-1", equipment_type |-> "MCC", description |-> None],
      [id |-> 2, tag |-> "MDP-1", equipment_type |-> "PANEL", description |-> "main panel"],
      [id |-> 3, tag |-> "PLC-1", equipment_type |-> "PLC", description |-> None] }

GraphRelationships ==
    << [source_id |-> 2, target_id |-> 1, relationship_type |-> "POWERS", confidence |-> 90],
       [source_id |-> 3, target_id |-> 1, relationship_type |-> "controls", confidence |-> 80],
       [source_id |-> 1, target_id |-> 2, relationship_type |-> "MONITORS", confidence |-> 70] >>

EquipmentById(id) == {e \in GraphEquipment : e.id = id}

\* json.loads on the texts of the model: the value, or JSONDecodeError.
JsonDecodeError(text) == text \in {"[W1", "{"}

JsonLoads(text) ==
    CASE text = "[\"W1\", \"W2\"]" -> <<"W1", "W2">>
      [] text = "[]" -> <<>>

\* `json.loads(x) if x else None`; <<v>> for a loaded value v, <<>> for None.
LoadedOrNone(text) == IF Truthy(text) THEN <<JsonLoads(text)>> ELSE <<>>

\* _connection_to_dict raises when a JSON column holds a text that is not
\* JSON.
ConnectionToDictRaises(conn) ==
    \/ Truthy(conn.wire_numbers) /\ JsonDecodeError(conn.wire_numbers)
    \/ Truthy(conn.inline_devices) /\ JsonDecodeError(conn.inline_devices)

ConnectionToDict(conn) ==
    [source |-> conn.source_tag, target |-> conn.target_tag, category |-> conn.category,
     connection_type |-> conn.connection_type, voltage |-> conn.voltage,
     breaker |-> conn.breaker, wire_size |-> conn.wire_size,
     wire_numbers |-> LoadedOrNone(conn.wire_numbers), load |-> conn.load,
     inline_devices |-> LoadedOrNone(conn.inline_devices),
     page_number |-> conn.page_number, document_id |-> conn.document_id]

Buckets ==
    {"feeds_from", "feeds_to", "controlled_by", "controls", "protected_by", "protects",
     "monitors", "monitored_by", "connected_to", "drives", "driven_by"}

EmptyConnections(tag) ==
    [equipment_tag |-> tag, feeds_from |-> <<>>, feeds_to |-> <<>>, controlled_by |-> <<>>,
     controls |-> <<>>, protected_by |-> <<>>, protects |-> <<>>, monitors |-> <<>>,
     monitored_by |-> <<>>, connected_to |-> <<>>, drives |-> <<>>, driven_by |-> <<>>,
     detailed_connections |-> <<>>, equipment_info |-> <<>>]

\* conn_type == "FEEDS" or category == "ELECTRICAL" and "FEEDS" in conn_type;
\* FEEDS is the only type of the model that contains "FEEDS".
IsFeed(conn_type, category) ==
    conn_type = "FEEDS" \/ (category = "ELECTRICAL" /\ conn_type = "FEEDS")

\* The bucket of a connection whose source is the equipment.
SourceBucket(conn) ==
    LET conn_type == conn.connection_type
        category == conn.category
    IN IF IsFeed(conn_type, category) THEN "feeds_to"
       ELSE IF conn_type \in {"CONTROLS", "AO", "DO"} \/ category = "CONTROL" THEN "controls"
       ELSE IF conn_type = "PROTECTS" THEN "protects"
       ELSE IF conn_type = "MONITORS" THEN "monitors"
       ELSE IF conn_type = "DRIVES" THEN "drives"
       ELSE IF category = "MECHANICAL" THEN "connected_to"
       ELSE None

\* The bucket of a connection whose target is the equipment.
TargetBucket(conn) ==
    LET conn_type == conn.connection_type
        category == conn.category
    IN IF IsFeed(conn_type, category) THEN "feeds_from"
       ELSE IF conn_type \in {"CONTROLS", "AO", "DO"} \/ category = "CONTROL" THEN "controlled_by"
       ELSE IF conn_type = "PROTECTS" THEN "protected_by"
       ELSE IF conn_type \in {"MONITORS", "AI", "DI"} THEN "monitored_by"
       ELSE IF conn_type = "DRIVES" THEN "driven_by"
       ELSE IF category = "MECHANICAL" THEN "connected_to"
       ELSE None

\* One of the two loops over the detailed connections.
RECURSIVE AddConnections(_, _, _)
AddConnections(res, conns, as_source) ==
    IF conns = <<>> THEN res
    ELSE LET conn == Head(conns)
             conn_dict == ConnectionToDict(conn)
             bucket == IF as_source THEN SourceBucket(conn) ELSE TargetBucket(conn)
             item == [tag |-> IF as_source THEN conn.target_tag ELSE conn.source_tag,
                      details |-> conn_dict]
             listed == [res EXCEPT !.detailed_connections = Append(@, conn_dict)]
         IN AddConnections(IF bucket = None THEN listed
                           ELSE [listed EXCEPT ![bucket] = Append(@, item)],
                           Tail(conns), as_source)

\* `any(c["tag"].upper() == tag.upper() for c in bucket)`
HasTag(bucket, tag) == \E i \in DOMAIN bucket : Upper(bucket[i].tag) = Upper(tag)

\* The loops over equipment.controls and equipment.controlled_by.
RECURSIVE AddRelationships(_, _, _)
AddRelationships(res, rels, equipment) ==
    IF rels = <<>> THEN res
    ELSE LET rel == Head(rels)
             rel_type == IF rel.relationship_type = "controls" THEN "CONTROLS"
                         ELSE rel.relationship_type
             target == CHOOSE e \in EquipmentById(rel.target_id) : TRUE
             source == CHOOSE e \in EquipmentById(rel.source_id) : TRUE
             next ==
                IF rel.source_id = equipment.id /\ ~HasTag(res.controls, target.tag)
                THEN [res EXCEPT !.controls = Append(@,
                         [tag |-> target.tag,
                          details |-> [relationship_type |-> rel.relationship_type,
                                       confidence |-> rel.confidence]])]
                ELSE IF rel.target_id = equipment.id /\ rel_type = "POWERS"
                        /\ ~HasTag(res.feeds_from, source.tag)
                THEN [res EXCEPT !.feeds_from = Append(@,
                         [tag |-> source.tag,
                          details |-> [relationship_type |-> rel.relationship_type]])]
                ELSE IF rel.target_id = equipment.id /\ rel_type = "CONTROLS"
                        /\ ~HasTag(res.controlled_by, source.tag)
                THEN [res EXCEPT !.controlled_by = Append(@,
                         [tag |-> source.tag,
                          details |-> [relationship_type |-> rel.relationship_type]])]
                ELSE res
         IN AddRelationships(next, Tail(rels), equipment)

SourceConnectionsAll(tag_upper) == graph
\* The rows whose source_tag is the tag, whatever its case.
SourceConnections(tag_upper) == {c \in graph : Upper(c.source_tag) = tag_upper}

TargetConnections(tag_upper) == {c \in graph : Upper(c.target_tag) = tag_upper}

\* The dict get_equipment_connections builds from the rows in the order
\* the queries returned them.
EquipmentConnections(tag, source_connections, target_connections) ==
    LET detailed == AddConnections(AddConnections(EmptyConnections(tag),
                                                  source_connections, TRUE),
                                   target_connections, FALSE)
        found == {e \in GraphEquipment : Upper(e.tag) = Upper(tag)}
    IN IF found = {} THEN detailed
       ELSE LET equipment == CHOOSE e \in found : TRUE
                info == [tag |-> equipment.tag, type |-> equipment.equipment_type,
                         description |-> equipment.description]
                controls == SelectSeq(GraphRelationships,
                                      LAMBDA r : r.source_id = equipment.id)
                controlled_by == SelectSeq(GraphRelationships,
                                           LAMBDA r : r.target_id = equipment.id)
            IN AddRelationships(
                   AddRelationships([detailed EXCEPT !.equipment_info = <<info>>],
                                    controls, equipment),
                   controlled_by, equipment)

\* A call of get_equipment_connections(db, equipment_tag) on the store.
GetEquipmentConnections ==
    /\ conn_pc = "idle"
    /\ flow_pc = "idle"
    /\ LET tag_upper == Upper(equipment_tag)
           sources == SourceConnections(tag_upper)
           targets == TargetConnections(tag_upper)
       IN IF \E c \in sources \cup targets : ConnectionToDictRaises(c)
          THEN /\ conn_pc' = "raised"
               /\ UNCHANGED conn_result
          ELSE \E so \in Orderings(sources), to \in Orderings(targets) :
                  /\ conn_result' = <<EquipmentConnections(equipment_tag, so, to)>>
                  /\ conn_pc' = "returned"
    /\ UNCHANGED notConnectionsVars

\* Calls of both graph queries on one store.
GraphNext == FlowNext \/ GetEquipmentConnections

GraphSpec == FlowInit /\ [][GraphNext]_vars

\* C18: a stored record whose JSON field is malformed never makes
\* get_equipment_connections (nor search() or an agent's search()) raise.
C18_MalformedJsonNeverRaises == conn_pc # "raised"

\* The tag of the call matches no equipment and no connection.
UnknownTag ==
    /\ \A c \in graph : /\ Upper(c.source_tag) # Upper(equipment_tag)
                        /\ Upper(c.target_tag) # Upper(equipment_tag)
    /\ \A e \in GraphEquipment : Upper(e.tag) # Upper(equipment_tag)

\* C19: with a tag that matches no equipment and no connection,
\* get_equipment_connections returns with every bucket and
\* detailed_connections empty, and get_full_power_flow returns with empty
\* trees and zero totals; neither raises.
C19_UnknownTagEmpty ==
    UnknownTag =>
        /\ conn_pc # "raised"
        /\ conn_pc = "returned" =>
              /\ \A b \in Buckets : conn_result[1][b] = <<>>
              /\ conn_result[1].detailed_connections = <<>>
        /\ flow_pc = "done" =>
              /\ result.upstream_tree = <<>>
              /\ result.downstream_tree = <<>>
              /\ result.total_upstream = 0
              /\ result.total_downstream = 0

\* C19 witness: both calls returned for a tag the non-empty store does not
\* know.
C19_Witness ==
    /\ UnknownTag
    /\ graph # {}
    /\ conn_pc = "returned"
    /\ flow_pc = "done"

\* ------------------------------------------------------------------------
\* GeminiVisionClient.analyze_crop
\* ------------------------------------------------------------------------

MaxTextLen == 4

\* A response text is a list of pieces: a brace, a comma, one member of a
\* JSON object, or prose without braces.
Member == "\"target\": \"V-101\""

TextPieces == {"{", "}", ",", Member, "sorry"}

VisionResponses ==
    {[state |-> "raises", text |-> <<>>]}
    \cup {[state |-> "answers", text |-> t] :
            t \in UNION {[1..n -> TextPieces] : n \in 0..MaxTextLen}}

\* str.find and str.rfind, 0-based, -1 when the piece does not occur.
Find(text, piece) ==
    IF \E i \in DOMAIN text : text[i] = piece
    THEN (CHOOSE i \in DOMAIN text : text[i] = piece /\ \A j \in 1..(i - 1) : text[j] # piece) - 1
    ELSE 0 - 1

RFind(text, piece) ==
    IF \E i \in DOMAIN text : text[i] = piece
    THEN (CHOOSE i \in DOMAIN text :
              text[i] = piece /\ \A j \in (i + 1)..Len(text) : text[j] # piece) - 1
    ELSE 0 - 1

\* text[start:end] for start >= 0 and end >= 0.
Slice(text, start, end) == SubSeq(text, start + 1, Min(end, Len(text)))

JsonLoadsAnyBraced(t) == t # <<>> /\ Head(t) = "{"
\* Whether json.loads accepts the text: an object of members separated by
\* commas.
JsonLoadsAccepts(t) ==
    /\ Len(t) >= 2
    /\ t[1] = "{"
    /\ t[Len(t)] = "}"
    /\ Len(t) = 2 \/ Len(t) % 2 = 1
    /\ \A i \in 2..(Len(t) - 1) : t[i] = IF i % 2 = 0 THEN Member ELSE ","

\* The dict json.loads returns for an accepted text.
JsonLoadsObject(t) == {t[i] : i \in {j \in DOMAIN t : t[j] = Member}}

\* analyze_crop: the dict returned and the model calls made.
AnalyzeCropOutcome(api_key, model_response) ==
    IF ~api_key THEN [result |-> {}, calls |-> 0]
    ELSE IF model_response.state = "raises" THEN [result |-> {}, calls |-> 1]
    ELSE LET text == model_response.text
             start == Find(text, "{")
             end == RFind(text, "}") + 1
         IN IF start # 0 - 1 /\ end # 0 - 1
            THEN IF JsonLoadsAccepts(Slice(text, start, end))
                 THEN [result |-> JsonLoadsObject(Slice(text, start, end)), calls |-> 1]
                 ELSE [result |-> {}, calls |-> 1]
            ELSE [result |-> {}, calls |-> 1]

VisionInit ==
    /\ vis_api_key \in BOOLEAN
    /\ vis_response \in VisionResponses
    /\ vis_pc = "idle"
    /\ vis_model_calls = 0
    /\ vis_result = {}
    /\ NotVisionIdle

\* A call of analyze_crop(image, focus_tag).
AnalyzeCrop ==
    /\ vis_pc = "idle"
    /\ LET outcome == AnalyzeCropOutcome(vis_api_key, vis_response)
       IN /\ vis_result' = outcome.result
          /\ vis_model_calls' = outcome.calls
    /\ vis_pc' = "returned"
    /\ UNCHANGED <<vis_api_key, vis_response>>
    /\ UNCHANGED notVisionVars

VisionNext == AnalyzeCrop

VisionSpec == VisionInit /\ [][VisionNext]_vars

\* A JSON object: braces around members separated by commas.
WellFormedObject(t) ==
    /\ Len(t) >= 2
    /\ t[1] = "{" /\ t[Len(t)] = "}"
    /\ \/ Len(t) = 2
       \/ /\ Len(t) % 2 = 1
          /\ \A i \in 2..(Len(t) - 1) : (i % 2 = 0) <=> (t[i] = Member)
          /\ \A i \in 2..(Len(t) - 1) : (i % 2 = 1) <=> (t[i] = ",")

\* No part of the response text is a JSON object.
NoParseableObject(text) ==
    \A i, j \in DOMAIN text : ~WellFormedObject(SubSeq(text, i, j))

\* C20: analyze_crop returns {} when no API key is configured (and then
\* makes no model call), when the model call raises, and when the response
\* text contains no parseable JSON object.
C20_FailuresReturnEmpty ==
    vis_pc = "returned" =>
        /\ ~vis_api_key => (vis_result = {} /\ vis_model_calls = 0)
        /\ (vis_api_key /\ vis_response.state = "raises") => vis_result = {}
        /\ (vis_api_key /\ vis_response.state = "answers"
               /\ NoParseableObject(vis_response.text)) => vis_result = {}

\* C20 witness: with a key configured, the model answered an opening brace,
\* a member and a comma, closed by a brace (a trailing comma, so no JSON
\* object), and {} was returned.
C20_Witness ==
    /\ vis_pc = "returned"
    /\ vis_api_key
    /\ vis_response = [state |-> "answers", text |-> <<"{", Member, ",", "}">>]
    /\ vis_result = {}
    /\ vis_model_calls = 1

\* The JSON objects in the response text, by where they start and end.
ObjectsIn(text) ==
    {<<i, j>> \in (DOMAIN text) \X (DOMAIN text) : WellFormedObject(SubSeq(text, i, j))}

\* C21: when the response text contains one JSON object, analyze_crop
\* returns that object's content, also when prose with '{' or '}' stands
\* before or after the object.
C21_ReturnsTheObject ==
    (/\ vis_pc = "returned"
     /\ vis_api_key
     /\ vis_response.state = "answers"
     /\ Cardinality(ObjectsIn(vis_response.text)) = 1) =>
        \A o \in ObjectsIn(vis_response.text) :
            vis_result = {vis_response.text[k] : k \in {n \in o[1]..o[2] :
                                                          vis_response.text[n] = Member}}

\* ------------------------------------------------------------------------
\* Termination of get_full_power_flow
\* ------------------------------------------------------------------------

\* The call runs to its end: the interpreter keeps executing the loops.
FlowFairSpec == FlowSpec /\ WF_vars(FlowNext)

FeedEdges == {c \in graph : c.category = "ELECTRICAL" /\ c.connection_type = "FEEDS"}

GraphTags ==
    {Upper(c.source_tag) : c \in graph} \cup {Upper(c.target_tag) : c \in graph}
    \cup {Upper(equipment_tag)}

\* C22: get_full_power_flow terminates on every graph, cycles and
\* self-feeding edges included; in each direction a tag is expanded at most
\* once, so the expansions are bounded by the number of distinct tags and
\* the output nodes by the number of FEEDS edges.
C22_TerminatesWithinBounds ==
    /\ [](flow_pc # "idle" =>
             /\ upstream_visited \subseteq GraphTags
             /\ downstream_visited \subseteq GraphTags
             /\ Len(result.upstream_tree) <= Cardinality(FeedEdges)
             /\ Len(result.downstream_tree) <= Cardinality(FeedEdges))
    /\ [][/\ (flow_pc = "upstream" /\ flow_pc' = "upstream"
                /\ result'.upstream_tree # result.upstream_tree)
             => (/\ Head(upstream_queue)[1] \notin upstream_visited
                 /\ Head(upstream_queue)[1] \in upstream_visited')
          /\ (flow_pc = "downstream" /\ flow_pc' = "downstream"
                /\ result'.downstream_tree # result.downstream_tree)
             => (/\ Head(downstream_queue)[1] \notin downstream_visited
                 /\ Head(downstream_queue)[1] \in downstream_visited')]_vars
    /\ (flow_pc \in {"upstream", "downstream"}) ~> (flow_pc = "done")

\* C22 witness: a call on a store with a self-feeding edge and a feed cycle
\* between VFD-101 and MCC-1 ended with one node per edge.
C22_Witness ==
    /\ flow_pc = "done"
    /\ equipment_tag = "VFD-101"
    /\ max_depth = 2
    /\ {c.id : c \in graph} = {2, 4, 5}
    /\ Len(result.upstream_tree) = 3
    /\ Len(result.downstream_tree) = 3

\* ------------------------------------------------------------------------
\* Branches of the power flow
\* ------------------------------------------------------------------------

\* The feed paths that lead upstream from the queried tag, each as the list
\* of rows it follows; no tag occurs twice on a path, and a path has at
\* most max_depth edges.
UpstreamRowPaths ==
    {p \in UNION {[1..k -> FeedEdges] : k \in 1..max_depth} :
        /\ Upper(p[1].target_tag) = Upper(equipment_tag)
        /\ \A i \in 1..(Len(p) - 1) : Upper(p[i].source_tag) = Upper(p[i + 1].target_tag)
        /\ \A i \in DOMAIN p : Upper(p[i].source_tag) # Upper(equipment_tag)
        /\ \A i, j \in DOMAIN p : Upper(p[i].source_tag) = Upper(p[j].source_tag) => i = j}

\* The same paths as the tags they pass, so that two rows between the same
\* two devices are one path.
UpstreamPathsTo(device) ==
    {[i \in DOMAIN p |-> Upper(p[i].source_tag)] :
        p \in {q \in UpstreamRowPaths : Upper(q[Len(q)].source_tag) = device}}

\* C23: no deduplication across branches: a device reachable from the
\* queried tag via two distinct feed paths within max_depth appears at
\* least twice in the upstream list, once per path.
C23_OncePerPath ==
    flow_pc = "done" =>
        \A device \in GraphTags :
            Cardinality(UpstreamPathsTo(device)) >= 2 =>
                Cardinality({i \in DOMAIN result.upstream_tree :
                                Upper(result.upstream_tree[i].tag) = device}) >= 2

\* ------------------------------------------------------------------------
\* Buckets of get_equipment_connections
\* ------------------------------------------------------------------------

SourceSideBuckets == {"feeds_to", "controls", "protects", "monitors", "drives", "connected_to"}

TargetSideBuckets ==
    {"feeds_from", "controlled_by", "protected_by", "monitored_by", "driven_by", "connected_to"}

\* The buckets among `side` that list `other` with the details of row c.
BucketsListing(c, other, side) ==
    {b \in side : \E i \in DOMAIN conn_result[1][b] :
                     /\ conn_result[1][b][i].tag = other
                     /\ conn_result[1][b][i].details = ConnectionToDict(c)}

\* C24: every row whose source or target is the queried tag is listed in
\* detailed_connections and its other endpoint is in exactly one bucket of
\* the side the tag is on; no such row is left without a bucket.
C24_EveryRowInOneBucket ==
    conn_pc = "returned" =>
        \A c \in graph :
            /\ Upper(c.source_tag) = Upper(equipment_tag) =>
                  /\ ConnectionToDict(c) \in Range(conn_result[1].detailed_connections)
                  /\ Cardinality(BucketsListing(c, c.target_tag, SourceSideBuckets)) = 1
            /\ Upper(c.target_tag) = Upper(equipment_tag) =>
                  /\ ConnectionToDict(c) \in Range(conn_result[1].detailed_connections)
                  /\ Cardinality(BucketsListing(c, c.source_tag, TargetSideBuckets)) = 1

\* C25: the list returned by expand_equipment_tags_with_aliases never
\* contains two elements that are equal when compared case-insensitively.
C25_NoCaseInsensitiveDuplicates ==
    alias_pc = "done" =>
        \A i, j \in DOMAIN expanded_result :
            Upper(expanded_result[i]) = Upper(expanded_result[j]) => i = j

\* The findings of the agents whose run did not fail.
NotFailed == SelectSeq(results, LAMBDA e : agent_run[e.agent] \notin {"raises", "slow"})

\* C26: a failed agent is excluded from the weighting of the overall
\* confidence: the confidence of the response is the weighted average over
\* the agents that did not fail (fractions compared by cross-multiplying).
C26_FailedAgentNotWeighted ==
    (map_pc = "returned" /\ NotFailed # <<>>) =>
        multi_response[1].confidence.num * TotalWeight(NotFailed)
            = WeightedSum(NotFailed) * multi_response[1].confidence.den

\* ------------------------------------------------------------------------
\* SearchAgent._calculate_confidence on the results an agent can collect
\* ------------------------------------------------------------------------

MaxConfResults == 5

\* Relevance scores in thousandths: the fixed scores of the agents, and the
\* cosine similarity that the chunk searches pass on, which lies in [-1, 1].
ConfScores == {0 - 500, 700, 1000}

ConfSourceTypes == {"supplementary", "pdf"}

ConfResult(stype, score) ==
    AgentSearchResult(stype, "io_list.xlsx", "Sheet1", None, score)

ConfInit ==
    /\ conf_results \in UNION {[1..n -> {ConfResult(t, s) : t \in ConfSourceTypes, s \in ConfScores}] :
                                  n \in 0..MaxConfResults}
    /\ \A i \in DOMAIN conf_results :
          conf_results[i].relevance_score < 0 => conf_results[i].source_type = "supplementary"
    /\ conf_pc = "idle"
    /\ conf_value = 0
    /\ NotConfIdle

\* A call of _calculate_confidence(results).
CalculateConfidenceCall ==
    /\ conf_pc = "idle"
    /\ conf_value' = CalculateConfidence(conf_results)
    /\ conf_pc' = "done"
    /\ UNCHANGED conf_results
    /\ UNCHANGED notConfVars

ConfNext == CalculateConfidenceCall

ConfSpec == ConfInit /\ [][ConfNext]_vars

\* C27: the agent's confidence lies in [0, 1] and is 0 for an empty list,
\* for every relevance score a source can produce.
C27_ConfidenceInUnitInterval ==
    conf_pc = "done" =>
        /\ conf_value >= 0
        /\ conf_value <= 1000
        /\ conf_results = <<>> => conf_value = 0

\* ------------------------------------------------------------------------
\* C28: order, truncation and count of the response of search()
\* ------------------------------------------------------------------------

ScoresOf(rs) == {rs[i].relevance_score : i \in DOMAIN rs}

WithScore(rs, s) == SelectSeq(rs, LAMBDA r : r.relevance_score = s)

NonIncreasing(rs) ==
    \A i, j \in DOMAIN rs : i < j => rs[i].relevance_score >= rs[j].relevance_score

\* C28: the step of search() that sorts and returns leaves a list that is in
\* non-increasing relevance_score order, in which the results of each score
\* are exactly the aggregated results of that score in their aggregation
\* order; the response carries the first `limit` of them (at most limit
\* entries), and total_count is the number of aggregated results before the
\* truncation.
C28_SortedStableTruncated ==
    [][(search_pc = "sort" /\ search_pc' = "done") =>
          /\ Len(all_results') = Len(all_results)
          /\ NonIncreasing(all_results')
          /\ \A s \in ScoresOf(all_results) \cup ScoresOf(all_results') :
                 WithScore(all_results', s) = WithScore(all_results, s)
          /\ NonIncreasing(response'.results)
          /\ Len(response'.results) <= limit
          /\ response'.results = SubSeq(all_results', 1, Len(response'.results))
          /\ Len(response'.results) = IF Len(all_results) < limit
                                       THEN Len(all_results) ELSE limit
          /\ response'.total_count = Len(all_results)]_vars

\* C28 witness: a finished search whose response was truncated and holds two
\* results of equal score that came from different searches.
C28_Witness ==
    /\ search_pc = "done"
    /\ response.total_count > Len(response.results)
    /\ Len(response.results) = limit
    /\ \E i, j \in DOMAIN response.results :
          /\ i < j
          /\ response.results[i].relevance_score = response.results[j].relevance_score
          /\ response.results[i].match_type # response.results[j].match_type

\* ------------------------------------------------------------------------
\* C29: duplicates and quotas are per stored document
\* ------------------------------------------------------------------------

\* Two results of the same stored document: the same id read from the same
\* table.
SameStoredDocument(a, b) ==
    a.document = b.document /\ a.document_table = b.document_table

\* A result the aggregation holds or may rightly have dropped: an admitted
\* result of the same stored document has its key, or the stored document
\* has used up its quota.
HeldOrRightlyDropped(r) ==
    \/ \E i \in DOMAIN all_results :
          SameStoredDocument(all_results[i], r) /\ ResultKey(all_results[i]) = ResultKey(r)
    \/ Cardinality({i \in DOMAIN all_results : SameStoredDocument(all_results[i], r)})
          >= max_per_document

\* C29: once the supplementary searches have been aggregated, every result
\* they returned is either held, or was dropped because of results of its
\* own stored document (an equal key, or max_per_document of them): a PDF
\* document never stands in for a supplementary document of the same id.
C29_OnlySameStoredDocument ==
    search_pc \in {"rescore", "sort", "done"} =>
        /\ \A rs \in SearchSupplementaryChunks :
              \A i \in DOMAIN rs : HeldOrRightlyDropped(rs[i])
        /\ equipment_tags # <<>> =>
              \A rs \in SearchEquipmentData(equipment_tags) :
                 \A i \in DOMAIN rs : HeldOrRightlyDropped(rs[i])

\* ------------------------------------------------------------------------
\* C30: the alias expansion under a project scope
\* ------------------------------------------------------------------------

\* The Equipment rows of project p, and the alias rows of those equipment.
EquipmentOfProject(p) == {e \in AliasEquipment : e.project_id = p}

AliasesOfProject(p) ==
    {r \in alias_table : \E e \in EquipmentOfProject(p) : r.equipment_id = e.id}

\* The lists the expansion may return on the database that holds project
\* p's equipment and aliases only.
ResultsWithinProject(p) ==
    {AppendMissing(OriginalTags(input_tags), order) :
        order \in Orderings(ExpandedTagsIn(EquipmentOfProject(p), AliasesOfProject(p),
                                            p, input_tags))}

\* C30: with a project scope set, the list returned is one the expansion
\* returns when the equipment and aliases of the other projects are removed
\* from the database: nothing of another project's equipment is added.
C30_ScopedToProject ==
    (alias_pc = "done" /\ alias_project_id # 0) =>
        expanded_result \in ResultsWithinProject(alias_project_id)

====
